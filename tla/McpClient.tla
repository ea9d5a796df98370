------------------------------- MODULE McpClient -------------------------------
(* The client facade of mcp/client.go over the sessions of McpSession: lazy      *)
(* initialisation and self-healing under c.mu, Reset, Close and the heartbeat    *)
(* loop, together with executeWithRetry of ai/mcp/provider.go, which every tool  *)
(* call goes through.                                                            *)
(*                                                                               *)
(* A session is one of a sequence of generations: created by the transport       *)
(* factory, in the handshake while its creator holds c.mu, ready, and done once  *)
(* Close or the end of the transport has closed it.  What happens inside a       *)
(* session is the subject of McpSession; here a request on a ready session is    *)
(* answered or times out, and one on a session that is done fails.               *)
EXTENDS Naturals, FiniteSets

CONSTANTS
    Users,       \* goroutines that make one tool call each
    Heartbeat,   \* the heartbeat goroutine
    HasHeartbeat,\* heartbeatInterval > 0
    Nobody,      \* nobody holds c.mu
    MaxFaults,   \* bound: sessions that die, requests and handshakes that fail
    MaxSessions  \* bound: no behaviour creates more

Procs    == Users \cup {Heartbeat}
Sessions == 1..MaxSessions
NoSession == 0

ASSUME ClientAssumption ==
    /\ IsFiniteSet(Users)
    /\ Heartbeat \notin Users
    /\ Nobody \notin Procs
    /\ HasHeartbeat \in BOOLEAN
    /\ MaxFaults \in Nat
    /\ MaxSessions \in Nat

VARIABLES
    pc,       \* pc[p]: where goroutine p is
    at,       \* at[p]: the session that p makes its request on
    attempt,  \* attempt[u]: first or second attempt of executeWithRetry
    lock,     \* holder of c.mu, where it is held over several steps
    sess,     \* sess[s]: the state of session s
    created,  \* how many sessions the factory has made
    current,  \* c.session (and c.initResult, which goes with it)
    closed,   \* c.closed, and with it heartbeat.stop
    faults    \* faults so far

vars == <<pc, at, attempt, lock, sess, created, current, closed, faults>>

Init ==
    /\ pc = [p \in Procs |-> IF p \in Users THEN "ensure"
                             ELSE IF HasHeartbeat THEN "wait" ELSE "done"]
    /\ at = [p \in Procs |-> NoSession]
    /\ attempt = [u \in Users |-> 1]
    /\ lock = Nobody
    /\ sess = [s \in Sessions |-> "none"]
    /\ created = 0
    /\ current = NoSession
    /\ closed = FALSE
    /\ faults = 0

Fault == faults < MaxFaults /\ faults' = faults + 1

(* c.session.Close(): a session that its pump has ended already is done anyway. *)
Teardown == IF current = NoSession THEN sess ELSE [sess EXCEPT ![current] = "done"]

-------------------------------------------------------------------------------
(* Mutant: no retry. *)
TransportErrorFinal(p) == IF p = Heartbeat THEN "reset" ELSE "failed"

(* What becomes of the error of an attempt.  A transport error makes           *)
(* executeWithRetry reset the client and try once more, any other is returned  *)
(* at once; the heartbeat resets the client on either.                         *)
TransportError(p) ==
    IF p = Heartbeat \/ attempt[p] = 1 THEN "reset" ELSE "failed"

OtherError(p) == IF p = Heartbeat THEN "reset" ELSE "refused"

(* ensureInitialized, one critical section of c.mu unless it connects. *)

EnsureClosed(p) ==
    /\ pc[p] = "ensure"
    /\ lock = Nobody
    /\ closed
    /\ pc' = [pc EXCEPT ![p] = OtherError(p)]
    /\ UNCHANGED <<at, attempt, lock, sess, created, current, closed, faults>>

Usable == current # NoSession /\ sess[current] = "ready"

EnsureReady(p) ==
    /\ pc[p] = "ensure"
    /\ lock = Nobody
    /\ ~closed
    /\ Usable
    /\ at' = [at EXCEPT ![p] = current]
    /\ pc' = [pc EXCEPT ![p] = "request"]
    /\ UNCHANGED <<attempt, lock, sess, created, current, closed, faults>>

(* Mutant: c.mu is not acquired before the connection is made, as if it were   *)
(* released for the handshake.                                                 *)
EnsureConnectsUnlocked(p) ==
    /\ pc[p] = "ensure"
    /\ ~closed
    /\ ~Usable
    /\ created < MaxSessions
    /\ created' = created + 1
    /\ sess' = [Teardown EXCEPT ![created + 1] = "handshake"]
    /\ current' = NoSession
    /\ lock' = p
    /\ pc' = [pc EXCEPT ![p] = "handshake"]
    /\ UNCHANGED <<at, attempt, closed, faults>>

(* There is no session, or it is done: tear it down, make a transport and a    *)
(* session, and begin the handshake with c.mu held.                            *)
EnsureConnects(p) ==
    /\ pc[p] = "ensure"
    /\ lock = Nobody
    /\ ~closed
    /\ ~Usable
    /\ created < MaxSessions
    /\ created' = created + 1
    /\ sess' = [Teardown EXCEPT ![created + 1] = "handshake"]
    /\ current' = NoSession
    /\ lock' = p
    /\ pc' = [pc EXCEPT ![p] = "handshake"]
    /\ UNCHANGED <<at, attempt, closed, faults>>

(* The factory cannot make a transport; whether its error is one of transport  *)
(* is for the factory to say.                                                  *)
FactoryFails(p) ==
    /\ pc[p] = "ensure"
    /\ lock = Nobody
    /\ ~closed
    /\ ~Usable
    /\ Fault
    /\ sess' = Teardown
    /\ current' = NoSession
    /\ \E l \in {TransportError(p), OtherError(p)} : pc' = [pc EXCEPT ![p] = l]
    /\ UNCHANGED <<at, attempt, lock, created, closed>>

HandshakeSucceeds(p) ==
    /\ pc[p] = "handshake"
    /\ sess[created] = "handshake"
    /\ sess' = [sess EXCEPT ![created] = "ready"]
    /\ current' = created
    /\ lock' = Nobody
    /\ at' = [at EXCEPT ![p] = created]
    /\ pc' = [pc EXCEPT ![p] = "request"]
    /\ UNCHANGED <<attempt, created, closed, faults>>

(* Mutant: a handshake that fails keeps c.mu. *)
HandshakeFailsLocked(p) ==
    /\ pc[p] = "handshake"
    /\ \/ sess[created] = "done" /\ UNCHANGED faults
       \/ sess[created] = "handshake" /\ Fault
    /\ sess' = [sess EXCEPT ![created] = "done"]
    /\ pc' = [pc EXCEPT ![p] = TransportError(p)]
    /\ UNCHANGED <<at, attempt, lock, created, current, closed>>

(* initialize or the initialized notification fails, times out, or the session *)
(* ends meanwhile: the new session is closed.                                  *)
HandshakeFails(p) ==
    /\ pc[p] = "handshake"
    /\ \/ sess[created] = "done" /\ UNCHANGED faults
       \/ sess[created] = "handshake" /\ Fault
    /\ sess' = [sess EXCEPT ![created] = "done"]
    /\ lock' = Nobody
    /\ pc' = [pc EXCEPT ![p] = TransportError(p)]
    /\ UNCHANGED <<at, attempt, created, current, closed>>

(* initialize is answered by an error, or with a protocol version the client   *)
(* does not support: the new session is closed, and there is no retry.         *)
HandshakeRefused(p) ==
    /\ pc[p] = "handshake"
    /\ sess[created] = "handshake"
    /\ Fault
    /\ sess' = [sess EXCEPT ![created] = "done"]
    /\ lock' = Nobody
    /\ pc' = [pc EXCEPT ![p] = OtherError(p)]
    /\ UNCHANGED <<at, attempt, created, current, closed>>

-------------------------------------------------------------------------------
(* The request itself, on the session that ensureInitialized returned, which   *)
(* others may have closed since.  Ping, the lists (page by page), CallTool,    *)
(* ReadResource, subscriptions, prompts, completion and the logging level      *)
(* differ in their payload and in the capability they ask the server for.      *)

RequestSucceeds(p) ==
    /\ pc[p] = "request"
    /\ sess[at[p]] = "ready"
    /\ pc' = [pc EXCEPT ![p] = IF p = Heartbeat THEN "wait" ELSE "succeeded"]
    /\ UNCHANGED <<at, attempt, lock, sess, created, current, closed, faults>>

RequestFails(p) ==
    /\ pc[p] = "request"
    /\ \/ sess[at[p]] = "done" /\ UNCHANGED faults
       \/ sess[at[p]] = "ready" /\ Fault
    /\ pc' = [pc EXCEPT ![p] = TransportError(p)]
    /\ UNCHANGED <<at, attempt, lock, sess, created, current, closed>>

(* The peer answers by an error, or it does not have the capability. *)
RequestRefused(p) ==
    /\ pc[p] = "request"
    /\ sess[at[p]] = "ready"
    /\ Fault
    /\ pc' = [pc EXCEPT ![p] = OtherError(p)]
    /\ UNCHANGED <<at, attempt, lock, sess, created, current, closed>>

(* Mutants: a retry that does not count as one, and a heartbeat that ends with *)
(* its first failure.                                                          *)
ResetUncounted(p) ==
    /\ pc[p] = "reset"
    /\ lock = Nobody
    /\ sess' = Teardown
    /\ current' = NoSession
    /\ pc' = [pc EXCEPT ![p] = IF p = Heartbeat THEN "wait" ELSE "ensure"]
    /\ UNCHANGED <<at, attempt, lock, created, closed, faults>>

ResetEndsHeartbeat(p) ==
    /\ pc[p] = "reset"
    /\ lock = Nobody
    /\ sess' = Teardown
    /\ current' = NoSession
    /\ IF p = Heartbeat
       THEN pc' = [pc EXCEPT ![p] = "done"] /\ UNCHANGED attempt
       ELSE pc' = [pc EXCEPT ![p] = "ensure"] /\ attempt' = [attempt EXCEPT ![p] = 2]
    /\ UNCHANGED <<at, lock, created, closed, faults>>

(* Reset tears down the current session, whichever session the error came from. *)
Reset(p) ==
    /\ pc[p] = "reset"
    /\ lock = Nobody
    /\ sess' = Teardown
    /\ current' = NoSession
    /\ IF p = Heartbeat
       THEN pc' = [pc EXCEPT ![p] = "wait"] /\ UNCHANGED attempt
       ELSE pc' = [pc EXCEPT ![p] = "ensure"] /\ attempt' = [attempt EXCEPT ![p] = 2]
    /\ UNCHANGED <<at, lock, created, closed, faults>>

-------------------------------------------------------------------------------
(* The heartbeat loop: the timer fires while stop is open, and a loop that     *)
(* reaches its select with stop closed ends.                                   *)

HeartbeatPings ==
    /\ pc[Heartbeat] = "wait"
    /\ ~closed
    /\ pc' = [pc EXCEPT ![Heartbeat] = "ensure"]
    /\ UNCHANGED <<at, attempt, lock, sess, created, current, closed, faults>>

HeartbeatStops ==
    /\ pc[Heartbeat] = "wait"
    /\ closed
    /\ pc' = [pc EXCEPT ![Heartbeat] = "done"]
    /\ UNCHANGED <<at, attempt, lock, sess, created, current, closed, faults>>

(* Mutant: Close does not wait for a handshake that is under way. *)
CloseWithoutLock ==
    /\ ~closed
    /\ closed' = TRUE
    /\ sess' = Teardown
    /\ current' = NoSession
    /\ UNCHANGED <<pc, at, attempt, lock, created, faults>>

(* Client.Close waits for c.mu and so for a handshake. *)
Close ==
    /\ lock = Nobody
    /\ ~closed
    /\ closed' = TRUE
    /\ sess' = Teardown
    /\ current' = NoSession
    /\ UNCHANGED <<pc, at, attempt, lock, created, faults>>

(* The transport of a session ends by itself (external). *)
SessionDies(s) ==
    /\ sess[s] \in {"handshake", "ready"}
    /\ Fault
    /\ sess' = [sess EXCEPT ![s] = "done"]
    /\ UNCHANGED <<pc, at, attempt, lock, created, current, closed>>

-------------------------------------------------------------------------------
Ensure(p) == EnsureClosed(p) \/ EnsureReady(p) \/ EnsureConnects(p)

Handshake(p) == HandshakeSucceeds(p) \/ HandshakeFails(p) \/ HandshakeRefused(p)

Step(p) ==
    \/ Ensure(p) \/ FactoryFails(p) \/ Handshake(p)
    \/ RequestSucceeds(p) \/ RequestFails(p) \/ RequestRefused(p) \/ Reset(p)

Next ==
    \/ \E p \in Procs : Step(p)
    \/ HeartbeatPings \/ HeartbeatStops
    \/ Close
    \/ \E s \in Sessions : SessionDies(s)

Spec == Init /\ [][Next]_vars

(* Every goroutine goes on: requests and handshakes have timeouts, so they end *)
(* one way or the other, and c.mu, which Go's mutex hands to a waiter that has *)
(* starved, is acquired by whoever keeps asking for it.                        *)
Fairness ==
    /\ \A p \in Procs :
          /\ SF_vars(Ensure(p)) /\ SF_vars(Reset(p))
          /\ WF_vars(Handshake(p)) /\ WF_vars(RequestSucceeds(p) \/ RequestFails(p))
    /\ WF_vars(HeartbeatPings) /\ WF_vars(HeartbeatStops)

FairSpec == Spec /\ Fairness

-------------------------------------------------------------------------------
TypeOK ==
    /\ pc \in [Procs -> {"ensure", "handshake", "request", "reset", "wait",
                         "succeeded", "failed", "refused", "done"}]
    /\ at \in [Procs -> Sessions \cup {NoSession}]
    /\ attempt \in [Users -> 1..2]
    /\ lock \in Procs \cup {Nobody}
    /\ sess \in [Sessions -> {"none", "handshake", "ready", "done"}]
    /\ created \in 0..MaxSessions
    /\ current \in Sessions \cup {NoSession}
    /\ closed \in BOOLEAN
    /\ faults \in 0..MaxFaults

(* No session is left behind: one that is open is the client's current session *)
(* or is in the handshake of the goroutine that holds c.mu.                    *)
NoSessionLeft ==
    \A s \in Sessions :
        /\ sess[s] = "ready" => s = current
        /\ sess[s] = "handshake" => s = created /\ lock # Nobody /\ pc[lock] = "handshake"

(* A client that is closed has no open session, and gets none any more. *)
ClosedForGood ==
    closed => \A s \in Sessions : sess[s] \in {"none", "done"}

(* Self-healing hides one fault from the caller: as long as a client is open   *)
(* and has seen only one fault, no tool call fails by a transport error.       *)
OneFaultIsHidden ==
    faults <= 1 /\ ~closed => \A u \in Users : pc[u] # "failed"

(* Every tool call ends, whatever fails and whenever the client is closed. *)
CallsEnd == \A u \in Users : <>(pc[u] \in {"succeeded", "failed", "refused"})

(* The heartbeat drives the reconnection: once faults have ceased, an open     *)
(* client is connected, and stays so.                                          *)
HeartbeatReconnects == <>[](closed \/ Usable)

(* Reconnecting does not feed on itself, although a reset fails the requests of *)
(* others, which then reset in their turn: a goroutine that retries does so     *)
(* once, and the heartbeat loses one session to each fault and each retry.      *)
(* (MaxSessions is larger, so that the bound never stops a behaviour.)          *)
ReconnectsAreBounded == created <= 1 + 2 * (faults + Cardinality(Users))
===============================================================================
