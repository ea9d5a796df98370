------------------------------- MODULE DamiStream -------------------------------
(* One stream of dami/stream.go: StreamOn dispatches the request to the          *)
(* listeners of the topic one after the other (dispatcher.go), each pushes items *)
(* into the one sink they share, and only when the dispatch is over does the     *)
(* caller get the channel and the canceller goroutine start.                     *)
(*                                                                               *)
(* A listener in Async starts a goroutine that pushes and returns at once; the   *)
(* others push before they return.                                               *)
EXTENDS Integers, Sequences

CONSTANTS
    Listeners,  \* the number of listeners of the topic, in index order
    Async,      \* those that push from a goroutine of their own
    MaxItems,   \* bound: items that a listener pushes
    Capacity    \* of the channel: 16 in the code

ASSUME StreamAssumption ==
    /\ Listeners \in Nat \ {0}
    /\ Async \subseteq 1..Listeners
    /\ MaxItems \in Nat
    /\ Capacity \in Nat \ {0}

Handlers  == 1..Listeners
Canceller == 0
Procs     == Handlers \cup {Canceller}

VARIABLES
    caller,    \* StreamOn, then the consumer's range loop over the channel
    turn,      \* the listener that the dispatch has reached
    pc,        \* pc[p]: where a handler, or the canceller goroutine, is
    pushed,    \* pushed[h]: items that h has pushed or tried to push
    accepted,  \* history: the last of them sent before the stream was ended
    ch,        \* contents of s.ch: [by, item] or [by, item |-> "error"]
    chClosed,  \* close(s.ch) has happened
    done,      \* close(s.done) has happened
    once,      \* s.once: "unused", "used", or its Do is executing
    ctxDone,   \* the context of the stream is done
    received   \* what the consumer has read

vars == <<caller, turn, pc, pushed, accepted, ch, chClosed, done, once, ctxDone, received>>

Error == -1

Init ==
    /\ caller = "dispatching"
    /\ turn = 1
    /\ pc = [p \in Procs |-> "idle"]
    /\ pushed = [h \in Handlers |-> 0]
    /\ accepted = [h \in Handlers |-> 0]
    /\ ch = <<>>
    /\ chClosed = FALSE
    /\ done = FALSE
    /\ once = "unused"
    /\ ctxDone = FALSE
    /\ received = <<>>

Goto(p, l) == pc' = [pc EXCEPT ![p] = l]

channel == <<ch, chClosed, done, once>>
items   == <<pushed, accepted>>
reader  == <<caller, turn, received>>

-------------------------------------------------------------------------------
(* The dispatch. *)

StartHandler ==
    /\ caller = "dispatching"
    /\ turn \in Handlers
    /\ pc[turn] = "idle"
    /\ Goto(turn, "running")
    /\ turn' = IF turn \in Async THEN turn + 1 ELSE turn
    /\ UNCHANGED <<caller, items, channel, ctxDone, received>>

(* A handler may return without having called Complete.  One that panics takes *)
(* StreamOn with it: nothing recovers.                                         *)
HandlerReturns(h) ==
    /\ pc[h] = "running"
    /\ Goto(h, "returned")
    /\ turn' = IF h \in Async THEN turn ELSE turn + 1
    /\ UNCHANGED <<caller, items, channel, ctxDone, received>>

DispatchEnds ==
    /\ caller = "dispatching"
    /\ turn > Listeners
    /\ caller' = "reading"
    /\ Goto(Canceller, "running")
    /\ UNCHANGED <<turn, items, channel, ctxDone, received>>

-------------------------------------------------------------------------------
(* push, of a value of the stream's type: a select of a send, s.done and       *)
(* ctx.Done.  If none of them is ready the handler waits.  Nothing keeps a     *)
(* handler from pushing after it has completed the stream, or after somebody   *)
(* else has: a select that begins after the close of s.ch may pick the send on *)
(* the closed channel, which panics.                                           *)

Room == ~chClosed /\ Len(ch) < Capacity

Ended == done \/ ctxDone

Send(h) ==
    /\ Room
    /\ ch' = Append(ch, [by |-> h, item |-> pushed[h] + 1])
    /\ pushed' = [pushed EXCEPT ![h] = @ + 1]
    /\ accepted' = IF Ended THEN accepted ELSE [accepted EXCEPT ![h] = pushed[h] + 1]

(* The item goes nowhere: s.done or ctx.Done was chosen. *)
TurnAway(h) ==
    /\ Ended
    /\ pushed' = [pushed EXCEPT ![h] = @ + 1]
    /\ UNCHANGED <<ch, accepted>>

(* Mutant: a full channel drops the item instead of holding up the handler. *)
PushOrDrop(h) ==
    /\ pc[h] = "running"
    /\ pushed[h] < MaxItems
    /\ \/ Send(h)
       \/ /\ ~Room
          /\ pushed' = [pushed EXCEPT ![h] = @ + 1]
          /\ accepted' = IF Ended THEN accepted ELSE [accepted EXCEPT ![h] = pushed[h] + 1]
          /\ UNCHANGED ch
    /\ UNCHANGED <<pc, chClosed, done, once, ctxDone, reader>>

(* Mutant: the select without the case of ctx.Done. *)
PushUncancelled(h) ==
    /\ pc[h] = "running"
    /\ pushed[h] < MaxItems
    /\ \/ Send(h) /\ UNCHANGED pc
       \/ done /\ TurnAway(h) /\ UNCHANGED pc
       \/ ~Room /\ ~done /\ Goto(h, "stuck") /\ UNCHANGED <<ch, items>>
    /\ UNCHANGED <<chClosed, done, once, ctxDone, reader>>

Push(h) ==
    /\ pc[h] = "running"
    /\ pushed[h] < MaxItems
    /\ \/ Send(h) /\ UNCHANGED pc
       \/ TurnAway(h) /\ UNCHANGED pc
       \/ chClosed /\ Goto(h, "panicked") /\ UNCHANGED <<ch, items>>
       \/ ~Room /\ ~Ended /\ Goto(h, "blocked") /\ UNCHANGED <<ch, items>>
    /\ UNCHANGED <<chClosed, done, once, ctxDone, reader>>

Unblock(h) ==
    /\ pc[h] = "blocked"
    /\ Send(h) \/ TurnAway(h)
    /\ Goto(h, "running")
    /\ UNCHANGED <<chClosed, done, once, ctxDone, reader>>

-------------------------------------------------------------------------------
(* Complete and cancel: both go through s.once, and a second Do waits for the  *)
(* first to end.  Next completes the stream by itself, with an error, when it  *)
(* is given a value of another type.  A handler goes on after either.          *)

Complete(h, withError) ==
    /\ pc[h] = "running"
    /\ IF once = "unused"
       THEN once' = "executing" /\ Goto(h, IF withError THEN "failing" ELSE "finishing")
       ELSE once' = once /\ Goto(h, "waiting")
    /\ UNCHANGED <<items, ch, chClosed, done, ctxDone, reader>>

Cancel ==
    /\ pc[Canceller] = "running"
    /\ ctxDone
    /\ IF once = "unused"
       THEN once' = "executing" /\ Goto(Canceller, "finishing")
       ELSE once' = once /\ Goto(Canceller, "waiting")
    /\ UNCHANGED <<items, ch, chClosed, done, ctxDone, reader>>

(* Mutant: the error item does not end the stream. *)
SendErrorOnly(h) ==
    /\ pc[h] = "failing"
    /\ \/ Room /\ ch' = Append(ch, [by |-> h, item |-> Error])
       \/ ctxDone /\ UNCHANGED ch
    /\ Goto(h, "running")
    /\ UNCHANGED <<items, chClosed, done, once, ctxDone, reader>>

(* The error item, for which ctx.Done is the only way out of a full channel. *)
SendError(h) ==
    /\ pc[h] = "failing"
    /\ \/ Room /\ ch' = Append(ch, [by |-> h, item |-> Error])
       \/ ctxDone /\ UNCHANGED ch
    /\ Goto(h, "finishing")
    /\ UNCHANGED <<items, chClosed, done, once, ctxDone, reader>>

(* Mutant: s.done is not closed before s.ch. *)
CloseDoneNot(p) ==
    /\ pc[p] = "finishing"
    /\ Goto(p, "closing")
    /\ UNCHANGED <<items, channel, ctxDone, reader>>

(* close(s.done), then close(s.ch); closing a closed channel panics. *)
CloseDone(p) ==
    /\ pc[p] = "finishing"
    /\ done' = TRUE
    /\ Goto(p, IF done THEN "panicked" ELSE "closing")
    /\ UNCHANGED <<items, ch, chClosed, once, ctxDone, reader>>

After(p) == IF p = Canceller THEN "returned" ELSE "running"

(* A sender that waits for room in s.ch, and that neither s.done nor ctx.Done  *)
(* has woken before, is woken by its close, and panics.                        *)
Stranded(q) == pc[q] = "blocked" /\ ~Ended

(* Mutant: s.ch is left open. *)
CloseChannelNot(p) ==
    /\ pc[p] = "closing"
    /\ once' = "used"
    /\ Goto(p, After(p))
    /\ UNCHANGED <<items, ch, chClosed, done, ctxDone, reader>>

CloseChannel(p) ==
    /\ pc[p] = "closing"
    /\ chClosed' = TRUE
    /\ once' = "used"
    /\ pc' = [q \in Procs |-> IF q = p THEN After(p) ELSE IF Stranded(q) THEN "panicked" ELSE pc[q]]
    /\ UNCHANGED <<items, ch, done, ctxDone, reader>>

OnceOver(p) ==
    /\ pc[p] = "waiting"
    /\ once = "used"
    /\ Goto(p, After(p))
    /\ UNCHANGED <<items, channel, ctxDone, reader>>

-------------------------------------------------------------------------------
(* The consumer and the context. *)

Receive ==
    /\ caller = "reading"
    /\ ch # <<>>
    /\ received' = Append(received, Head(ch))
    /\ ch' = Tail(ch)
    /\ UNCHANGED <<caller, turn, pc, items, chClosed, done, once, ctxDone>>

ReceiveEnd ==
    /\ caller = "reading"
    /\ ch = <<>>
    /\ chClosed
    /\ caller' = "ended"
    /\ UNCHANGED <<turn, pc, items, channel, ctxDone, received>>

(* The consumer breaks out of its loop. *)
Leave ==
    /\ caller = "reading"
    /\ caller' = "left"
    /\ UNCHANGED <<turn, pc, items, channel, ctxDone, received>>

ContextEnds ==
    /\ ~ctxDone
    /\ ctxDone' = TRUE
    /\ UNCHANGED <<pc, items, channel, reader>>

-------------------------------------------------------------------------------
Handler(h) ==
    \/ Push(h) \/ Unblock(h) \/ HandlerReturns(h)
    \/ Complete(h, TRUE) \/ Complete(h, FALSE) \/ SendError(h)

Finish(p) == CloseDone(p) \/ CloseChannel(p) \/ OnceOver(p)

Next ==
    \/ StartHandler \/ DispatchEnds
    \/ \E h \in Handlers : Handler(h)
    \/ Cancel
    \/ \E p \in Procs : Finish(p)
    \/ Receive \/ ReceiveEnd \/ Leave
    \/ ContextEnds

Spec == Init /\ [][Next]_vars

(* Goroutines go on and the consumer reads what there is; the context need not *)
(* end, nor need the consumer stay.  A handler that has pushed its items       *)
(* returns, with or without Complete.                                          *)
FairSpec ==
    /\ Spec
    /\ WF_vars(StartHandler) /\ WF_vars(DispatchEnds)
    /\ \A h \in Handlers : WF_vars(Push(h) \/ Unblock(h) \/ SendError(h)) /\ SF_vars(HandlerReturns(h))
    /\ WF_vars(Cancel)
    /\ \A p \in Procs : WF_vars(Finish(p))
    /\ WF_vars(Receive) /\ WF_vars(ReceiveEnd)

-------------------------------------------------------------------------------
Items == [by : Handlers, item : 1..MaxItems \cup {Error}]

TypeOK ==
    /\ caller \in {"dispatching", "reading", "ended", "left"}
    /\ turn \in 1..(Listeners + 1)
    /\ pc \in [Procs -> {"idle", "running", "blocked", "failing", "finishing", "closing",
                         "waiting", "returned", "panicked"}]
    /\ pushed \in [Handlers -> 0..MaxItems] /\ accepted \in [Handlers -> 0..MaxItems]
    /\ ch \in Seq(Items) /\ Len(ch) <= Capacity
    /\ received \in Seq(Items)
    /\ chClosed \in BOOLEAN /\ done \in BOOLEAN /\ ctxDone \in BOOLEAN
    /\ once \in {"unused", "executing", "used"}

Delivered == received \o ch

Positions(h) ==
    {i \in 1..Len(Delivered) : Delivered[i].by = h /\ Delivered[i].item # Error}

(* Backpressure loses nothing: every item pushed before the stream was ended   *)
(* is in the channel or has been read, and has been read when the consumer's   *)
(* loop ends; and what arrives of a handler is in its order, nothing twice.    *)
(* (The select of push, the closes of Complete and cancel.)                    *)
NothingIsLost ==
    \A h \in Handlers :
        /\ \A k \in 1..accepted[h] : \E i \in Positions(h) :
              Delivered[i].item = k /\ (caller = "ended" => i \in 1..Len(received))
        /\ \A i, j \in Positions(h) : i < j => Delivered[i].item < Delivered[j].item

(* An error comes once, and behind it nothing of its listener; something of    *)
(* another only if one of the two pushes from a goroutine of its own, so that  *)
(* the other's item may go in before s.ch is closed.                           *)
ErrorIsLast ==
    \A i, j \in 1..Len(Delivered) :
        i < j /\ Delivered[i].item = Error =>
            /\ Delivered[j].item # Error
            /\ Delivered[j].by # Delivered[i].by
            /\ Delivered[i].by \in Async \/ Delivered[j].by \in Async

(* However many goroutines complete and cancel the stream while others push:   *)
(* nobody closes a channel twice, and no handler that waits in push is caught  *)
(* by the close of s.ch, because s.done wakes it first.  Who panics is one     *)
(* that begins a push when s.ch is closed already.                             *)
OnlyLatePushPanics ==
    [][\A p \in Procs :
          pc'[p] = "panicked" => pc[p] = "panicked" \/ (pc[p] = "running" /\ chClosed)]_vars

Panicked == \E p \in Procs : pc[p] = "panicked"

(* Once the context is done, whatever the handlers do, StreamOn returns and    *)
(* the consumer's loop ends, unless a push on the closed channel has panicked. *)
CancelEndsStream ==
    ctxDone ~> (caller \in {"ended", "left"} \/ Panicked)

Completing(h) == pc[h] \in {"failing", "finishing", "closing"}

(* A stream that a handler completes ends for its consumer, whether that is    *)
(* before the dispatch is over or from a goroutine, while the consumer reads   *)
(* and others wait in push; no end of the context is needed.                   *)
CompletionEndsStream ==
    (once = "used" \/ (caller = "reading" /\ \E h \in Handlers : Completing(h)))
        ~> (caller \in {"ended", "left"} \/ Panicked)
===============================================================================
