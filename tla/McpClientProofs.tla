---------------------------- MODULE McpClientProofs ----------------------------
(* Proofs about McpClient: for any number of callers, with or without the        *)
(* heartbeat, and any number of faults, no session is left open behind the       *)
(* client's back, and a closed client has none.                                  *)
EXTENDS McpClient, FiniteSetTheorems, TLAPS

(* c.mu is held over several steps by exactly the goroutine in the handshake.    *)
LockIsHandshake == \A p \in Procs : pc[p] = "handshake" <=> lock = p

(* While it is held, the session of the handshake exists, no other is current    *)
(* and the client is open: nobody can close it, or connect, meanwhile.           *)
LockedClient ==
    lock # Nobody => created \in Sessions /\ current = NoSession /\ ~closed

(* The factory's next session is a fresh one, and the current one is not.        *)
Generations ==
    /\ current <= created
    /\ \A s \in Sessions : s > created => sess[s] = "none"

ClosedHasNoCurrent == closed => current = NoSession

ClientInv ==
    /\ TypeOK
    /\ LockIsHandshake
    /\ LockedClient
    /\ Generations
    /\ ClosedHasNoCurrent
    /\ NoSessionLeft

-------------------------------------------------------------------------------
(* A client without a current session has no session that is ready, and none at  *)
(* all when c.mu is free.                                                        *)
LEMMA NothingOpen ==
    ASSUME ClientInv, current = NoSession, lock = Nobody, NEW s \in Sessions
    PROVE  sess[s] \in {"none", "done"}
    BY DEF ClientInv, TypeOK, NoSessionLeft, Sessions, NoSession

(* What tearing the current session down leaves, when c.mu is free: no session   *)
(* that is open, and the sessions not created yet as they were.                  *)
LEMMA TeardownCloses ==
    ASSUME ClientInv, lock = Nobody
    PROVE  /\ Teardown \in [Sessions -> {"none", "handshake", "ready", "done"}]
           /\ \A s \in Sessions : Teardown[s] \in {"none", "done"}
           /\ \A s \in Sessions : s > created => Teardown[s] = "none"
<1> USE DEF ClientInv, TypeOK
<1>1. CASE current = NoSession
    BY <1>1, NothingOpen DEF Teardown, Generations
<1>2. CASE current # NoSession
  <2>1. current \in Sessions /\ Teardown = [sess EXCEPT ![current] = "done"]
      BY <1>2 DEF Teardown
  <2>2. \A s \in Sessions : s # current => sess[s] \in {"none", "done"}
      BY DEF NoSessionLeft
  <2>3. current <= created /\ created \in Nat
      BY ClientAssumption DEF Generations
  <2>4. \A s \in Sessions : s > created => s # current
      BY <2>1, <2>3 DEF Sessions
  <2> QED
      BY <2>1, <2>2, <2>4 DEF Generations
<1> QED
    BY <1>1, <1>2

(* The error of an attempt never puts a goroutine back into the handshake.       *)
LEMMA ErrorTargets ==
    ASSUME NEW p \in Procs
    PROVE  /\ TransportError(p) \in {"reset", "failed"}
           /\ OtherError(p) \in {"reset", "refused"}
    BY DEF TransportError, OtherError

(* A goroutine that only moves its own program counter, outside the handshake,   *)
(* disturbs nothing.                                                             *)
LEMMA MovesOnly ==
    ASSUME ClientInv, NEW p \in Procs,
           NEW l \in {"ensure", "request", "reset", "wait", "succeeded", "failed",
                      "refused", "done"},
           pc[p] # "handshake",
           pc' = [pc EXCEPT ![p] = l],
           at' \in [Procs -> Sessions \cup {NoSession}],
           faults' \in 0..MaxFaults,
           UNCHANGED <<attempt, lock, sess, created, current, closed>>
    PROVE  ClientInv'
<1> USE DEF ClientInv
<1>1. TypeOK'
    BY DEF TypeOK
<1>2. LockIsHandshake'
    BY DEF LockIsHandshake, TypeOK
<1>3. NoSessionLeft'
  <2> SUFFICES ASSUME NEW s \in Sessions, sess[s] = "handshake"
               PROVE  lock # Nobody /\ pc'[lock] = "handshake"
      BY DEF NoSessionLeft
  <2>1. lock # Nobody /\ pc[lock] = "handshake" /\ lock \in Procs
      BY DEF NoSessionLeft, TypeOK
  <2> QED
      BY <2>1 DEF TypeOK
<1> QED
    BY <1>1, <1>2, <1>3 DEF LockedClient, Generations, ClosedHasNoCurrent

(* Tearing down with c.mu free, whatever else the goroutine does.                *)
LEMMA TearsDown ==
    ASSUME ClientInv, lock = Nobody, lock' = lock,
           sess' = Teardown, current' = NoSession,
           UNCHANGED created,
           pc' \in [Procs -> {"ensure", "request", "reset", "wait", "succeeded",
                              "failed", "refused", "done"}],
           at' = at,
           attempt' \in [Users -> 1..2],
           closed' \in BOOLEAN,
           faults' \in 0..MaxFaults
    PROVE  ClientInv'
<1> USE DEF ClientInv
<1>1. TypeOK'
    BY TeardownCloses DEF TypeOK
<1>2. LockIsHandshake'
    BY ClientAssumption DEF LockIsHandshake, TypeOK
<1>3. Generations'
  <2>1. 0 <= created
      BY ClientAssumption DEF TypeOK
  <2> QED
      BY <2>1, TeardownCloses DEF Generations, NoSession
<1>4. NoSessionLeft'
    BY TeardownCloses DEF NoSessionLeft
<1> QED
    BY <1>1, <1>2, <1>3, <1>4 DEF LockedClient, ClosedHasNoCurrent

-------------------------------------------------------------------------------
LEMMA ClientInit == Init => ClientInv
<1> SUFFICES ASSUME Init PROVE ClientInv
    OBVIOUS
<1> USE ClientAssumption DEF Init, Procs, NoSession
<1>1. TypeOK
  <2>1. /\ pc \in [Procs -> {"ensure", "handshake", "request", "reset", "wait",
                            "succeeded", "failed", "refused", "done"}]
        /\ at \in [Procs -> Sessions \cup {NoSession}]
        /\ attempt \in [Users -> 1..2]
        /\ sess \in [Sessions -> {"none", "handshake", "ready", "done"}]
      OBVIOUS
  <2>2. /\ created \in 0..MaxSessions
        /\ faults \in 0..MaxFaults
        /\ current \in Sessions \cup {NoSession}
        /\ lock \in Procs \cup {Nobody}
      OBVIOUS
  <2>3. closed \in BOOLEAN
      BY Zenon
  <2> QED
      BY <2>1, <2>2, <2>3 DEF TypeOK
<1>2. LockIsHandshake
    BY DEF LockIsHandshake
<1> QED
    BY <1>1, <1>2
    DEF ClientInv, LockedClient, Generations, ClosedHasNoCurrent, NoSessionLeft

(* Making a session is the one step that takes c.mu.                             *)
LEMMA ConnectKeeps ==
    ASSUME ClientInv, NEW p \in Procs, EnsureConnects(p)
    PROVE  ClientInv'
<1> USE DEF ClientInv, EnsureConnects
<1>1. /\ created + 1 \in Sessions
      /\ created' = created + 1
      /\ created \in Nat
    BY ClientAssumption DEF TypeOK, Sessions
<1>2. /\ sess' \in [Sessions -> {"none", "handshake", "ready", "done"}]
      /\ \A s \in Sessions : s # created' => sess'[s] \in {"none", "done"}
      /\ sess'[created'] = "handshake"
    BY <1>1, TeardownCloses
<1>3. TypeOK'
    BY <1>1, <1>2, ClientAssumption DEF TypeOK, Sessions
<1>4. LockIsHandshake'
    BY ClientAssumption DEF LockIsHandshake, TypeOK
<1>5. Generations'
  <2>1. \A s \in Sessions : s > created' => s > created /\ s # created'
      BY <1>1 DEF Sessions
  <2>2. \A s \in Sessions : s > created' => sess'[s] = "none"
      BY <2>1, <1>1, TeardownCloses
  <2> QED
      BY <2>2, <1>1 DEF Generations, NoSession
<1>6. NoSessionLeft'
  <2>1. lock' # Nobody /\ pc'[lock'] = "handshake"
      BY ClientAssumption DEF TypeOK
  <2> QED
      BY <2>1, <1>2 DEF NoSessionLeft
<1> QED
    BY <1>1, <1>3, <1>4, <1>5, <1>6 DEF LockedClient, ClosedHasNoCurrent

(* The handshake ends, one way or the other, and c.mu is released.               *)
LEMMA HandshakeKeeps ==
    ASSUME ClientInv, NEW p \in Procs, Handshake(p)
    PROVE  ClientInv'
<1> USE DEF ClientInv
<1>1. pc[p] = "handshake" /\ lock' = Nobody
    BY DEF Handshake, HandshakeSucceeds, HandshakeFails, HandshakeRefused
<1>2. /\ lock = p /\ lock # Nobody
      /\ created \in Sessions /\ current = NoSession /\ ~closed
    BY <1>1, ClientAssumption DEF LockIsHandshake, LockedClient
<1>3. \E l \in {"request", "reset", "failed", "refused"} : pc' = [pc EXCEPT ![p] = l]
    BY ErrorTargets
    DEF Handshake, HandshakeSucceeds, HandshakeFails, HandshakeRefused
<1>4. \A q \in Procs : pc'[q] # "handshake"
    BY <1>2, <1>3 DEF LockIsHandshake, TypeOK
<1>5. /\ UNCHANGED <<attempt, created, closed>>
      /\ at' \in [Procs -> Sessions \cup {NoSession}]
      /\ faults' \in 0..MaxFaults
    BY <1>2, ClientAssumption
    DEF Handshake, HandshakeSucceeds, HandshakeFails, HandshakeRefused, Fault, TypeOK
<1>6. \/ sess' = [sess EXCEPT ![created] = "ready"] /\ current' = created
      \/ sess' = [sess EXCEPT ![created] = "done"] /\ current' = NoSession
    BY <1>2 DEF Handshake, HandshakeSucceeds, HandshakeFails, HandshakeRefused
<1>7. TypeOK'
    BY <1>1, <1>2, <1>3, <1>5, <1>6 DEF TypeOK
<1>8. LockIsHandshake'
    BY <1>1, <1>4, ClientAssumption DEF LockIsHandshake
<1>9. Generations'
    BY <1>2, <1>5, <1>6, ClientAssumption DEF Generations, TypeOK, Sessions, NoSession
<1>10. NoSessionLeft'
  <2>1. \A s \in Sessions : s # created => sess[s] \in {"none", "done"}
      BY <1>2 DEF NoSessionLeft, TypeOK, Sessions, NoSession
  <2> QED
      BY <2>1, <1>2, <1>5, <1>6 DEF NoSessionLeft, TypeOK
<1> QED
    BY <1>1, <1>2, <1>5, <1>7, <1>8, <1>9, <1>10 DEF LockedClient, ClosedHasNoCurrent

(* A step of a goroutine.                                                        *)
LEMMA StepKeeps ==
    ASSUME ClientInv, NEW p \in Procs, Step(p)
    PROVE  ClientInv'
<1>1. CASE EnsureClosed(p)
    BY <1>1, MovesOnly, ErrorTargets DEF EnsureClosed, ClientInv, TypeOK
<1>2. CASE EnsureReady(p)
  <2>1. at' \in [Procs -> Sessions \cup {NoSession}]
      BY <1>2 DEF EnsureReady, ClientInv, TypeOK
  <2> QED
      BY <1>2, <2>1, MovesOnly DEF EnsureReady, ClientInv, TypeOK
<1>3. CASE EnsureConnects(p)
    BY <1>3, ConnectKeeps
<1>4. CASE FactoryFails(p)
  <2>1. /\ faults' \in 0..MaxFaults
        /\ lock = Nobody /\ lock' = lock
        /\ at' = at /\ UNCHANGED <<attempt, created, closed>>
        /\ sess' = Teardown /\ current' = NoSession
        /\ attempt' \in [Users -> 1..2] /\ closed' \in BOOLEAN
      BY <1>4, ClientAssumption DEF FactoryFails, Fault, ClientInv, TypeOK
  <2>2. \A q \in Procs : pc[q] # "handshake"
      BY <2>1, ClientAssumption DEF ClientInv, LockIsHandshake
  <2>3. pc' \in [Procs -> {"ensure", "request", "reset", "wait", "succeeded",
                           "failed", "refused", "done"}]
      BY <1>4, <2>2, ErrorTargets DEF FactoryFails, ClientInv, TypeOK
  <2> QED
      BY <2>1, <2>3, TearsDown
<1>5. CASE Handshake(p)
    BY <1>5, HandshakeKeeps
<1>6. CASE RequestSucceeds(p)
    BY <1>6, MovesOnly DEF RequestSucceeds, ClientInv, TypeOK
<1>7. CASE RequestFails(p)
  <2>1. faults' \in 0..MaxFaults
      BY <1>7, ClientAssumption DEF RequestFails, Fault, ClientInv, TypeOK
  <2> QED
      BY <1>7, <2>1, MovesOnly, ErrorTargets DEF RequestFails, ClientInv, TypeOK
<1>8. CASE RequestRefused(p)
  <2>1. faults' \in 0..MaxFaults
      BY <1>8, ClientAssumption DEF RequestRefused, Fault, ClientInv, TypeOK
  <2> QED
      BY <1>8, <2>1, MovesOnly, ErrorTargets DEF RequestRefused, ClientInv, TypeOK
<1>9. CASE Reset(p)
  <2>1. /\ lock = Nobody /\ lock' = lock
        /\ at' = at /\ UNCHANGED <<created, closed, faults>>
        /\ sess' = Teardown /\ current' = NoSession
        /\ closed' \in BOOLEAN /\ faults' \in 0..MaxFaults
      BY <1>9 DEF Reset, ClientInv, TypeOK
  <2>2. attempt' \in [Users -> 1..2]
      BY <1>9 DEF Reset, Procs, ClientInv, TypeOK
  <2>3. \A q \in Procs : pc[q] # "handshake"
      BY <2>1, ClientAssumption DEF ClientInv, LockIsHandshake
  <2>4. pc' \in [Procs -> {"ensure", "request", "reset", "wait", "succeeded",
                           "failed", "refused", "done"}]
      BY <1>9, <2>3 DEF Reset, ClientInv, TypeOK
  <2> QED
      BY <2>1, <2>2, <2>4, TearsDown
<1> QED
    BY <1>1, <1>2, <1>3, <1>4, <1>5, <1>6, <1>7, <1>8, <1>9 DEF Step, Ensure

LEMMA ClientNext == ClientInv /\ [Next]_vars => ClientInv'
<1> SUFFICES ASSUME ClientInv, [Next]_vars PROVE ClientInv'
    OBVIOUS
<1>1. CASE \E p \in Procs : Step(p)
    BY <1>1, StepKeeps
<1>2. CASE HeartbeatPings
    BY <1>2, MovesOnly DEF HeartbeatPings, Procs, ClientInv, TypeOK
<1>3. CASE HeartbeatStops
    BY <1>3, MovesOnly DEF HeartbeatStops, Procs, ClientInv, TypeOK
<1>4. CASE Close
  <2>1. \A q \in Procs : pc[q] # "handshake"
      BY <1>4, ClientAssumption DEF Close, ClientInv, LockIsHandshake
  <2>2. pc' \in [Procs -> {"ensure", "request", "reset", "wait", "succeeded",
                           "failed", "refused", "done"}]
      BY <1>4, <2>1 DEF Close, ClientInv, TypeOK
  <2> QED
      BY <1>4, <2>2, TearsDown DEF Close, ClientInv, TypeOK
<1>5. CASE \E s \in Sessions : SessionDies(s)
  <2> PICK s \in Sessions : SessionDies(s)
      BY <1>5
  <2> USE DEF SessionDies, ClientInv
  <2>1. TypeOK'
      BY ClientAssumption DEF TypeOK, Fault
  <2>2. Generations'
    <3>1. ~(s > created)
        BY DEF Generations
    <3> QED
        BY <3>1 DEF Generations, TypeOK
  <2>3. NoSessionLeft'
      BY DEF NoSessionLeft, TypeOK
  <2> QED
      BY <2>1, <2>2, <2>3 DEF LockIsHandshake, LockedClient, ClosedHasNoCurrent
<1>6. CASE UNCHANGED vars
    BY <1>6
    DEF vars, ClientInv, TypeOK, LockIsHandshake, LockedClient, Generations,
        ClosedHasNoCurrent, NoSessionLeft
<1> QED
    BY <1>1, <1>2, <1>3, <1>4, <1>5, <1>6 DEF Next

(* The invariant holds in every reachable state.                                 *)
THEOREM Invariance == Spec => []ClientInv
    BY ClientInit, ClientNext, PTL DEF Spec

-------------------------------------------------------------------------------
(* client.go never loses a session: the one that is open is c.session, or is in  *)
(* the handshake of the goroutine that holds c.mu.                               *)
THEOREM NoSessionIsLeft == Spec => []NoSessionLeft
<1>1. ClientInv => NoSessionLeft
    BY DEF ClientInv
<1> QED
    BY <1>1, Invariance, PTL

(* After Client.Close no session is open, and no goroutine that was in           *)
(* ensureInitialized, resets or pings opens one.                                 *)
THEOREM ClosedIsForGood == Spec => []ClosedForGood
<1>1. ASSUME ClientInv PROVE ClosedForGood
  <2> SUFFICES ASSUME closed, NEW s \in Sessions
               PROVE  sess[s] \in {"none", "done"}
      BY DEF ClosedForGood
  <2>1. current = NoSession /\ lock = Nobody
      BY <1>1 DEF ClientInv, ClosedHasNoCurrent, LockedClient
  <2> QED
      BY <1>1, <2>1, NothingOpen
<1> QED
    BY <1>1, Invariance, PTL

-------------------------------------------------------------------------------
(* Why reconnecting ends.  Every fault, and every retry of a user, pays for two  *)
(* connections: the one it costs at once, and the one that the heartbeat's reset *)
(* costs, which may come late and tear down a session that is healthy.           *)

Retried == {u \in Users : attempt[u] = 2}

Budget == 1 + 2 * (faults + Cardinality(Retried))

(* A connection has still to be made: the current session, or the one in the     *)
(* handshake, is of no use.                                                      *)
Lost == IF (IF lock = Nobody THEN Usable ELSE sess[created] = "handshake")
        THEN 0 ELSE 1

(* The heartbeat is about to reset the client.                                   *)
Owes ==
    \/ pc[Heartbeat] = "reset"
    \/ pc[Heartbeat] = "request" /\ sess[at[Heartbeat]] = "done"
    \/ pc[Heartbeat] = "handshake" /\ sess[created] = "done"

Owed == IF Owes THEN 1 ELSE 0

PaidFor ==
    /\ created <= Budget
    /\ ~closed => created + Lost + Owed <= Budget

(* A user resets after its first attempt only; a request is made on a session    *)
(* that was ready, and such a session has been current.                          *)
ResetsOnce == \A u \in Users : pc[u] = "reset" => attempt[u] = 1

AtOpened ==
    \A p \in Procs : pc[p] = "request" =>
        at[p] \in Sessions /\ sess[at[p]] \in {"ready", "done"}

CurrentOpened == current # NoSession => sess[current] \in {"ready", "done"}

CountInv == ClientInv /\ ResetsOnce /\ AtOpened /\ CurrentOpened /\ PaidFor

(* A session that has been ready is ready or done for ever.                      *)
OpenedStays ==
    \A s \in Sessions : sess[s] \in {"ready", "done"} => sess'[s] \in {"ready", "done"}

LEMMA Opened ==
    ASSUME ClientInv, [Next]_vars
    PROVE  OpenedStays
<1> USE DEF ClientInv, TypeOK, OpenedStays
<1>0. /\ Teardown \in [Sessions -> {"none", "handshake", "ready", "done"}]
      /\ \A s \in Sessions : sess[s] \in {"ready", "done"} => Teardown[s] \in {"ready", "done"}
    BY DEF Teardown
<1>1. ASSUME NEW p \in Procs, Step(p) PROVE OpenedStays
  <2>1. CASE EnsureConnects(p)
    <3>1. /\ sess' = [Teardown EXCEPT ![created + 1] = "handshake"]
          /\ \A s \in Sessions : s = created + 1 => s > created
        BY <2>1, ClientAssumption DEF EnsureConnects
    <3>2. \A s \in Sessions : sess[s] \in {"ready", "done"} => s # created + 1
        BY <3>1 DEF Generations
    <3> QED
        BY <1>0, <3>1, <3>2
  <2>2. CASE Handshake(p)
      BY <2>2 DEF Handshake, HandshakeSucceeds, HandshakeFails, HandshakeRefused
  <2>3. CASE EnsureClosed(p) \/ EnsureReady(p) \/ RequestSucceeds(p) \/ RequestFails(p)
             \/ RequestRefused(p)
      BY <2>3 DEF EnsureClosed, EnsureReady, RequestSucceeds, RequestFails, RequestRefused
  <2>4. CASE FactoryFails(p) \/ Reset(p)
      BY <2>4, <1>0 DEF FactoryFails, Reset
  <2> QED
      BY <1>1, <2>1, <2>2, <2>3, <2>4 DEF Step, Ensure
<1>2. CASE HeartbeatPings \/ HeartbeatStops \/ UNCHANGED vars
    BY <1>2 DEF HeartbeatPings, HeartbeatStops, vars
<1>3. CASE Close
    BY <1>0, <1>3 DEF Close
<1>4. ASSUME NEW s \in Sessions, SessionDies(s) PROVE OpenedStays
    BY <1>4 DEF SessionDies
<1> QED
    BY <1>1, <1>2, <1>3, <1>4 DEF Next

LEMMA CurrentOpenedKeeps ==
    ASSUME ClientInv, CurrentOpened, [Next]_vars
    PROVE  CurrentOpened'
<1> USE DEF ClientInv, TypeOK, CurrentOpened
<1>1. CASE current' = current \/ current' = NoSession
    BY <1>1, Opened DEF OpenedStays
<1>2. ASSUME NEW p \in Procs, HandshakeSucceeds(p) PROVE CurrentOpened'
    BY <1>2, HandshakeKeeps, ClientAssumption
    DEF HandshakeSucceeds, LockIsHandshake, LockedClient
<1>3. \/ current' = current \/ current' = NoSession
      \/ \E p \in Procs : HandshakeSucceeds(p)
    BY DEF Next, Step, Ensure, Handshake, EnsureClosed, EnsureReady, EnsureConnects,
           FactoryFails, HandshakeFails, HandshakeRefused, RequestSucceeds,
           RequestFails, RequestRefused, Reset, HeartbeatPings, HeartbeatStops,
           Close, SessionDies, vars
<1> QED
    BY <1>1, <1>2, <1>3

LEMMA AtOpenedKeeps ==
    ASSUME ClientInv, AtOpened, CurrentOpened, [Next]_vars
    PROVE  AtOpened'
<1> SUFFICES ASSUME NEW q \in Procs, pc'[q] = "request"
             PROVE  at'[q] \in Sessions /\ sess'[at'[q]] \in {"ready", "done"}
    BY DEF AtOpened
<1> USE DEF ClientInv, TypeOK
<1>1. CASE pc[q] = "request" /\ at'[q] = at[q]
    BY <1>1, Opened DEF AtOpened, OpenedStays
<1>2. CASE EnsureReady(q)
    BY <1>2 DEF EnsureReady, Usable
<1>3. CASE HandshakeSucceeds(q)
    BY <1>3, ClientAssumption DEF HandshakeSucceeds, LockIsHandshake, LockedClient
<1>4. \/ pc[q] = "request" /\ at'[q] = at[q]
      \/ EnsureReady(q) \/ HandshakeSucceeds(q)
  <2>1. ASSUME NEW p \in Procs, Step(p) PROVE <1>4!:
      BY <2>1, ErrorTargets
      DEF Step, Ensure, Handshake, EnsureClosed, EnsureReady, EnsureConnects, FactoryFails,
          HandshakeSucceeds, HandshakeFails, HandshakeRefused, RequestSucceeds,
          RequestFails, RequestRefused, Reset
  <2>2. CASE ~\E p \in Procs : Step(p)
      BY <2>2 DEF Next, HeartbeatPings, HeartbeatStops, Close, SessionDies, vars, Procs
  <2> QED
      BY <2>1, <2>2
<1> QED
    BY <1>1, <1>2, <1>3, <1>4

LEMMA ResetsOnceKeeps ==
    ASSUME ClientInv, ResetsOnce, [Next]_vars
    PROVE  ResetsOnce'
<1> SUFFICES ASSUME NEW u \in Users, pc'[u] = "reset"
             PROVE  attempt'[u] = 1
    BY DEF ResetsOnce
<1> USE DEF ClientInv, TypeOK
<1>0. u \in Procs /\ u # Heartbeat
    BY ClientAssumption DEF Procs
<1>1. ASSUME NEW p \in Procs, Step(p) PROVE attempt'[u] = 1
  <2>1. CASE Reset(p)
      BY <1>0, <2>1 DEF Reset, ResetsOnce, Procs
  <2>2. CASE p # u /\ ~Reset(p)
      BY <1>0, <1>1, <2>2
      DEF Step, Ensure, Handshake, EnsureClosed, EnsureReady, EnsureConnects, FactoryFails,
          HandshakeSucceeds, HandshakeFails, HandshakeRefused, RequestSucceeds,
          RequestFails, RequestRefused, ResetsOnce
  <2>3. CASE p = u /\ ~Reset(p)
    <3>1. attempt' = attempt /\ OtherError(u) = "refused"
        BY <1>0, <1>1, <2>3
        DEF Step, Ensure, Handshake, EnsureClosed, EnsureReady, EnsureConnects, FactoryFails,
            HandshakeSucceeds, HandshakeFails, HandshakeRefused, RequestSucceeds,
            RequestFails, RequestRefused, OtherError
    <3>2. TransportError(u) = "reset" => attempt[u] = 1
        BY <1>0 DEF TransportError
    <3>3. pc'[u] \in {"request", "handshake", "succeeded", TransportError(u), OtherError(u)}
        BY <1>0, <1>1, <2>3
        DEF Step, Ensure, Handshake, EnsureClosed, EnsureReady, EnsureConnects, FactoryFails,
            HandshakeSucceeds, HandshakeFails, HandshakeRefused, RequestSucceeds,
            RequestFails, RequestRefused
    <3> QED
        BY <3>1, <3>2, <3>3
  <2> QED
      BY <2>1, <2>2, <2>3
<1>2. CASE ~\E p \in Procs : Step(p)
    BY <1>0, <1>2
    DEF Next, HeartbeatPings, HeartbeatStops, Close, SessionDies, vars, ResetsOnce
<1> QED
    BY <1>1, <1>2

-------------------------------------------------------------------------------
(* The arithmetic: what is counted are natural numbers.                          *)
LEMMA CountTypes ==
    ASSUME ClientInv
    PROVE  /\ created \in Nat /\ faults \in Nat
           /\ Cardinality(Retried) \in Nat
           /\ Cardinality(Retried) <= Cardinality(Users) /\ Cardinality(Users) \in Nat
           /\ Budget \in Nat
           /\ Lost \in 0..1 /\ Owed \in 0..1
<1>1. created \in Nat /\ faults \in Nat
    BY ClientAssumption DEF ClientInv, TypeOK
<1>2. /\ Cardinality(Retried) \in Nat
      /\ Cardinality(Retried) <= Cardinality(Users) /\ Cardinality(Users) \in Nat
    BY ClientAssumption, FS_Subset, FS_CardinalityType DEF Retried
<1>3. Lost \in 0..1 /\ Owed \in 0..1
    BY DEF Lost, Owed
<1> QED
    BY <1>1, <1>2, <1>3 DEF Budget

LEMMA Arithmetic ==
    ASSUME NEW c \in Nat, NEW b \in Nat, NEW l \in 0..1, NEW o \in 0..1,
           NEW l1 \in 0..1, NEW o1 \in 0..1, c + l + o <= b
    PROVE  /\ c + l1 + o1 <= b + 2
           /\ l1 + o1 <= l + o => c + l1 + o1 <= b
           /\ l = 1 /\ l1 = 0 /\ o1 <= o => c + 1 + l1 + o1 <= b
    OBVIOUS

LEMMA Sums ==
    ASSUME NEW l \in 0..1, NEW o \in 0..1, NEW l1 \in 0..1, NEW o1 \in 0..1,
           (l1 <= l /\ o1 <= o) \/ (l1 <= o /\ o1 <= l)
    PROVE  l1 + o1 <= l + o
    OBVIOUS

(* A step that makes no connection and is charged for can lose whatever it will. *)
LEMMA Charged ==
    ASSUME CountInv, ClientInv', created' = created, closed' = closed,
           Budget' = Budget + 2
    PROVE  PaidFor'
<1>1. /\ created \in Nat /\ Budget \in Nat
      /\ Lost \in 0..1 /\ Owed \in 0..1 /\ Lost' \in 0..1 /\ Owed' \in 0..1
  <2>1. Lost' \in 0..1 /\ Owed' \in 0..1
      BY DEF Lost, Owed
  <2> QED
      BY <2>1, CountTypes DEF CountInv
<1>2. created <= Budget /\ (~closed => created + Lost + Owed <= Budget)
    BY DEF CountInv, PaidFor
<1>3. created' <= Budget'
    BY <1>1, <1>2
<1>4. ASSUME ~closed' PROVE created' + Lost' + Owed' <= Budget'
    BY <1>1, <1>2, <1>4, Arithmetic
<1> QED
    BY <1>3, <1>4 DEF PaidFor

(* One that is free may only move a loss from one account to the other.          *)
LEMMA Free ==
    ASSUME CountInv, Budget' = Budget, created' = created,
           closed' \/ (~closed /\ Lost' + Owed' <= Lost + Owed)
    PROVE  PaidFor'
<1>1. /\ created \in Nat /\ Budget \in Nat
      /\ Lost \in 0..1 /\ Owed \in 0..1 /\ Lost' \in 0..1 /\ Owed' \in 0..1
  <2>1. Lost' \in 0..1 /\ Owed' \in 0..1
      BY DEF Lost, Owed
  <2> QED
      BY <2>1, CountTypes DEF CountInv
<1>2. created <= Budget /\ (~closed => created + Lost + Owed <= Budget)
    BY DEF CountInv, PaidFor
<1>3. created' <= Budget'
    BY <1>1, <1>2
<1>4. ASSUME ~closed' PROVE created' + Lost' + Owed' <= Budget'
  <2>1. created + Lost + Owed <= Budget /\ Lost' + Owed' <= Lost + Owed
      BY <1>2, <1>4
  <2> QED
      BY <1>1, <2>1, Arithmetic
<1> QED
    BY <1>3, <1>4 DEF PaidFor

LEMMA FaultCharges ==
    ASSUME CountInv, Fault, attempt' = attempt
    PROVE  Budget' = Budget + 2
<1>1. Retried' = Retried
    BY DEF Retried
<1> QED
    BY <1>1, CountTypes DEF Budget, Fault, CountInv

LEMMA RetryCharges ==
    ASSUME CountInv, NEW u \in Users, attempt[u] = 1,
           attempt' = [attempt EXCEPT ![u] = 2], faults' = faults
    PROVE  Budget' = Budget + 2
<1>1. Retried' = Retried \cup {u} /\ u \notin Retried
    BY DEF Retried, CountInv, ClientInv, TypeOK
<1>2. IsFiniteSet(Retried)
    BY ClientAssumption, FS_Subset DEF Retried
<1>3. Cardinality(Retried') = Cardinality(Retried) + 1
    BY <1>1, <1>2, FS_AddElement
<1> QED
    BY <1>3, CountTypes DEF Budget, CountInv

LEMMA BudgetStays ==
    ASSUME UNCHANGED <<attempt, faults>>
    PROVE  Budget' = Budget
    BY DEF Budget, Retried

(* A step that leaves sessions, lock and the heartbeat's place alone.            *)
LEMMA OthersFree ==
    ASSUME CountInv, ~closed, UNCHANGED <<lock, sess, created, current>>,
           UNCHANGED <<attempt, faults>>,
           Owes' => Owes
    PROVE  PaidFor'
<1>1. Lost' = Lost
    BY DEF Lost, Usable
<1>2. Owed' <= Owed
    BY DEF Owed
<1>3. Owed \in 0..1 /\ Owed' \in 0..1 /\ Lost \in 0..1 /\ Lost' \in 0..1
    BY DEF Owed, Lost
<1>4. Lost' <= Lost
    BY <1>1, <1>3
<1>5. Lost' + Owed' <= Lost + Owed
    BY <1>2, <1>3, <1>4, Sums
<1> QED
    BY <1>5, BudgetStays, Free

(* Making the connection settles the loss.                                       *)
LEMMA ConnectIsPaid ==
    ASSUME CountInv, NEW p \in Procs, EnsureConnects(p), ClientInv'
    PROVE  PaidFor'
<1> USE DEF CountInv, ClientInv, TypeOK
<1>1. Lost = 1
    BY DEF EnsureConnects, Lost
<1>2. /\ created' \in Sessions /\ lock' # Nobody /\ sess'[created'] = "handshake"
      /\ created' = created + 1 /\ created' > created
    BY TeardownCloses, ClientAssumption DEF EnsureConnects, Sessions
<1>3. Lost' = 0
    BY <1>2 DEF Lost
<1>4. Owes' => Owes
  <2>1. CASE p = Heartbeat
      BY <1>2, <2>1 DEF EnsureConnects, Owes, Procs
  <2>2. CASE p # Heartbeat
    <3>1. pc'[Heartbeat] = pc[Heartbeat] /\ at' = at
        BY <2>2 DEF EnsureConnects, Procs
    <3>2. pc[Heartbeat] # "handshake"
        BY ClientAssumption DEF EnsureConnects, LockIsHandshake, Procs
    <3>3. ASSUME pc[Heartbeat] = "request", sess'[at[Heartbeat]] = "done"
          PROVE  sess[at[Heartbeat]] = "done"
      <4>1. at[Heartbeat] \in Sessions /\ sess[at[Heartbeat]] \in {"ready", "done"}
          BY <3>3 DEF AtOpened, Procs
      <4>2. at[Heartbeat] # created + 1
          BY <1>2, <4>1 DEF Generations
      <4>3. current # NoSession => sess[current] = "done"
          BY DEF EnsureConnects, Usable, CurrentOpened
      <4> QED
          BY <3>3, <4>1, <4>2, <4>3 DEF EnsureConnects, Teardown
    <3> QED
        BY <3>1, <3>2, <3>3 DEF Owes
  <2> QED
      BY <2>1, <2>2
<1>5. Owed \in 0..1 /\ Owed' \in 0..1 /\ Owed' <= Owed
    BY <1>4 DEF Owed
<1>6. Budget' = Budget
    BY BudgetStays DEF EnsureConnects
<1>7. ~closed /\ created + Lost + Owed <= Budget
    BY DEF EnsureConnects, PaidFor
<1>8. created' + Lost' + Owed' <= Budget'
    BY <1>1, <1>2, <1>3, <1>5, <1>6, <1>7, CountTypes, Arithmetic
<1>9. created' <= Budget'
    BY <1>2, <1>3, <1>5, <1>6, <1>8, CountTypes
<1> QED
    BY <1>8, <1>9 DEF PaidFor

(* The end of a handshake: a fault pays for what follows, one that succeeds      *)
(* loses nothing, and one whose session has died had been paid for.              *)
LEMMA HandshakeIsPaid ==
    ASSUME CountInv, NEW p \in Procs, Handshake(p), ClientInv'
    PROVE  PaidFor'
<1> USE DEF CountInv, ClientInv, TypeOK
<1>1. /\ pc[p] = "handshake" /\ lock = p /\ lock # Nobody /\ lock' = Nobody
      /\ created \in Sessions /\ current = NoSession /\ ~closed
      /\ UNCHANGED <<attempt, created, closed>>
    BY ClientAssumption
    DEF Handshake, HandshakeSucceeds, HandshakeFails, HandshakeRefused,
        LockIsHandshake, LockedClient
<1>2. CASE Fault
    BY <1>1, <1>2, FaultCharges, Charged
<1>3. CASE HandshakeSucceeds(p)
  <2>1. current' = created /\ sess'[created] = "ready"
      BY <1>1, <1>3 DEF HandshakeSucceeds
  <2>2. Usable'
      BY <1>1, <2>1 DEF Usable, Sessions, NoSession
  <2>3. Lost' = 0
      BY <1>1, <2>2 DEF Lost
  <2>4. Owes' => Owes
    <3>1. CASE p = Heartbeat
        BY <1>1, <1>3, <2>1, <3>1 DEF HandshakeSucceeds, Owes, Procs
    <3>2. CASE p # Heartbeat
      <4>1. pc'[Heartbeat] = pc[Heartbeat] /\ at'[Heartbeat] = at[Heartbeat]
          BY <1>3, <3>2 DEF HandshakeSucceeds, Procs
      <4>2. pc[Heartbeat] # "handshake"
          BY <1>1, <3>2 DEF LockIsHandshake, Procs
      <4>3. pc[Heartbeat] = "request" => at[Heartbeat] # created
          BY <1>3 DEF HandshakeSucceeds, AtOpened, Procs
      <4> QED
          BY <1>3, <4>1, <4>2, <4>3 DEF HandshakeSucceeds, Owes, AtOpened, Procs
    <3> QED
        BY <3>1, <3>2
  <2>5. Lost' + Owed' <= Lost + Owed
      BY <2>3, <2>4 DEF Lost, Owed
  <2> QED
      BY <1>1, <1>3, <2>5, BudgetStays, Free DEF HandshakeSucceeds
<1>4. CASE HandshakeFails(p) /\ sess[created] = "done" /\ UNCHANGED faults
  <2>1. Lost = 1
      BY <1>1, <1>4 DEF Lost
  <2>2. sess' = sess /\ current' = NoSession
      BY <1>1, <1>4 DEF HandshakeFails
  <2>3. Lost' \in 0..1
      BY DEF Lost
  <2>4. Owes' => Owes
    <3>1. CASE p = Heartbeat
        BY <1>1, <1>4, <3>1 DEF Owes
    <3>2. CASE p # Heartbeat
        BY <1>1, <1>4, <2>2, <3>2 DEF HandshakeFails, Owes, Procs
    <3> QED
        BY <3>1, <3>2
  <2>5. /\ Owed \in 0..1 /\ Owed' \in 0..1 /\ Owed' <= Owed
        /\ Lost \in 0..1 /\ Lost' <= Lost
      BY <2>1, <2>3, <2>4 DEF Owed
  <2>6. Lost' + Owed' <= Lost + Owed
      BY <2>3, <2>5, Sums
  <2> QED
      BY <1>1, <1>4, <2>6, BudgetStays, Free
<1> QED
    BY <1>2, <1>3, <1>4 DEF Handshake, HandshakeFails, HandshakeRefused

(* A reset by a user is its one retry; one by the heartbeat has been owed.       *)
LEMMA ResetIsPaid ==
    ASSUME CountInv, NEW p \in Procs, Reset(p), ClientInv'
    PROVE  PaidFor'
<1> USE DEF CountInv
<1>1. CASE p # Heartbeat
  <2>1. p \in Users /\ attempt[p] = 1
      BY <1>1 DEF Reset, Procs, ResetsOnce
  <2>2. /\ created' = created /\ closed' = closed /\ faults' = faults
        /\ attempt' = [attempt EXCEPT ![p] = 2]
      BY <1>1 DEF Reset
  <2> QED
      BY <2>1, <2>2, RetryCharges, Charged
<1>2. CASE p = Heartbeat /\ ~closed
  <2>1. pc'[Heartbeat] = "wait" /\ pc[Heartbeat] = "reset"
      BY <1>2 DEF Reset, ClientInv, TypeOK
  <2>2. Owed = 1 /\ Owed' = 0
      BY <2>1 DEF Owed, Owes
  <2>3. /\ Lost \in 0..1 /\ Lost' \in 0..1 /\ Owed \in 0..1 /\ Owed' \in 0..1
        /\ Lost' <= Owed /\ Owed' <= Lost
      BY <2>2 DEF Lost
  <2>4. Lost' + Owed' <= Lost + Owed
      BY <2>3, Sums
  <2> QED
      BY <1>2, <2>4, BudgetStays, Free DEF Reset
<1>3. CASE p = Heartbeat /\ closed
    BY <1>3, BudgetStays, Free DEF Reset
<1> QED
    BY <1>1, <1>2, <1>3

(* The other steps of a goroutine.                                               *)
LEMMA RequestIsPaid ==
    ASSUME CountInv, NEW p \in Procs, ClientInv',
           \/ EnsureClosed(p) \/ EnsureReady(p) \/ FactoryFails(p)
           \/ RequestSucceeds(p) \/ RequestFails(p) \/ RequestRefused(p)
    PROVE  PaidFor'
<1> USE DEF CountInv, ClientInv, TypeOK
<1>0. UNCHANGED <<attempt, created, closed>>
    BY DEF EnsureClosed, EnsureReady, FactoryFails, RequestSucceeds, RequestFails,
           RequestRefused
<1>1. CASE Fault
    BY <1>0, <1>1, FaultCharges, Charged
<1>2. CASE closed /\ UNCHANGED faults
    BY <1>0, <1>2, BudgetStays, Free
<1>3. CASE ~closed /\ EnsureReady(p)
  <2>1. Owes' => Owes
    <3>1. CASE p = Heartbeat
        BY <1>3, <3>1 DEF EnsureReady, Usable, Owes, Procs
    <3>2. CASE p # Heartbeat
        BY <1>3, <3>2 DEF EnsureReady, Owes, Procs
    <3> QED
        BY <3>1, <3>2
  <2> QED
      BY <1>3, <2>1, OthersFree DEF EnsureReady
<1>4. CASE ~closed /\ RequestSucceeds(p)
  <2>1. Owes' => Owes
      BY <1>4 DEF RequestSucceeds, Owes, Procs
  <2> QED
      BY <1>4, <2>1, OthersFree DEF RequestSucceeds
<1>5. CASE ~closed /\ RequestFails(p) /\ sess[at[p]] = "done" /\ UNCHANGED faults
  <2>1. Owes' => Owes
    <3>1. CASE p = Heartbeat
        BY <1>5, <3>1 DEF RequestFails, Owes
    <3>2. CASE p # Heartbeat
        BY <1>5, <3>2 DEF RequestFails, Owes, Procs
    <3> QED
        BY <3>1, <3>2
  <2> QED
      BY <1>5, <2>1, OthersFree DEF RequestFails
<1> QED
    BY <1>1, <1>2, <1>3, <1>4, <1>5
    DEF EnsureClosed, EnsureReady, FactoryFails, RequestSucceeds, RequestFails,
        RequestRefused

LEMMA PaidForKeeps ==
    ASSUME CountInv, [Next]_vars
    PROVE  PaidFor'
<1>0. ClientInv'
    BY ClientNext DEF CountInv
<1>1. ASSUME NEW p \in Procs, Step(p) PROVE PaidFor'
    BY <1>0, <1>1, ConnectIsPaid, HandshakeIsPaid, ResetIsPaid, RequestIsPaid
    DEF Step, Ensure
<1>2. CASE HeartbeatPings
  <2>1. ~Owes'
      BY <1>2 DEF HeartbeatPings, Owes, Procs, CountInv, ClientInv, TypeOK
  <2> QED
      BY <1>2, <2>1, OthersFree DEF HeartbeatPings
<1>3. CASE HeartbeatStops
    BY <1>3, BudgetStays, Free DEF HeartbeatStops
<1>4. CASE Close
    BY <1>4, BudgetStays, Free DEF Close
<1>5. CASE \E s \in Sessions : SessionDies(s)
    BY <1>0, <1>5, FaultCharges, Charged DEF SessionDies
<1>6. CASE UNCHANGED vars
    BY <1>6
    DEF vars, CountInv, PaidFor, Budget, Retried, Lost, Usable, Owed, Owes
<1> QED
    BY <1>1, <1>2, <1>3, <1>4, <1>5, <1>6 DEF Next

LEMMA CountInit == Init => CountInv
<1> SUFFICES ASSUME Init PROVE CountInv
    OBVIOUS
<1>1. ClientInv /\ ResetsOnce /\ AtOpened /\ CurrentOpened
  <2>1. \A p \in Procs : pc[p] \notin {"reset", "request"}
      BY DEF Init
  <2> QED
      BY <2>1, ClientInit DEF Init, ResetsOnce, AtOpened, CurrentOpened, Procs
<1>2. Owed = 0 /\ Lost = 1
    BY DEF Init, Owed, Owes, Lost, Usable, Procs
<1>3. created = 0 /\ faults = 0 /\ Cardinality(Retried) \in Nat
    BY <1>1, CountTypes DEF Init
<1> QED
    BY <1>1, <1>2, <1>3 DEF CountInv, PaidFor, Budget

THEOREM CountInvariance == Spec => []CountInv
<1>1. CountInv /\ [Next]_vars => CountInv'
    BY ClientNext, ResetsOnceKeeps, AtOpenedKeeps, CurrentOpenedKeeps, PaidForKeeps
    DEF CountInv
<1> QED
    BY <1>1, CountInit, PTL DEF Spec

(* However many share the client and reset the sessions of one another, a client *)
(* connects at most once, and twice more for each fault and each caller; so what *)
(* MaxSessions leaves out never happens when it is larger than that.             *)
THEOREM ReconnectingEnds == Spec => []ReconnectsAreBounded
<1>1. CountInv => ReconnectsAreBounded
  <2> SUFFICES ASSUME CountInv PROVE ReconnectsAreBounded
      OBVIOUS
  <2>1. created <= Budget
      BY DEF CountInv, PaidFor
  <2> QED
      BY <2>1, CountTypes DEF CountInv, Budget, ReconnectsAreBounded
<1> QED
    BY <1>1, CountInvariance, PTL
===============================================================================
