-------------------------------- MODULE DamiBus --------------------------------
(* A bus with a TagRouter (dami/bus.go), as its users see it: a provider type   *)
(* is registered on it and removed again (DamiLpc), its listeners and others of  *)
(* the same topic are kept in one bucket (DamiTagRouter), and the topic is       *)
(* called (call.go, lpc_call.go): Match, the distribution to the listeners       *)
(* (dispatcher.go), and the Future that they reply into (future.go).             *)
(*                                                                               *)
(* A call is a Matcher.  Methods of the provider reply before they return; other *)
(* listeners may keep the Sink and reply later, or return an error, which ends   *)
(* the distribution.  The Future is handed to several holders, each of which     *)
(* Gets the reply with a context of its own.                                     *)
EXTENDS DamiLpc, DamiTagRouter

CONSTANTS
    Topic,    \* the method of the provider that is called
    Others,   \* listeners of its topic that do not belong to the provider
    Holders,  \* those who Get the reply of a call
    NoReply

ASSUME BusAssumption ==
    /\ Topic \in Methods
    /\ Others \cap (Registrars \X Methods) = {}
    /\ Listeners = (Registrars \X {Topic}) \cup Others
    /\ NoReply \notin Listeners

VARIABLES
    at,       \* at[c]: "idle", "matching", "dispatching", "called" or "panicked"
    targets,  \* targets[c]: the listeners that have still to be run
    failed,   \* the calls whose distribution was ended by an error
    kept,     \* pairs of a call and a listener that has kept its Sink
    done,     \* done[c]: the content of the Future's channel of capacity 1
    first,    \* first[c]: the first reply to c
    get,      \* get[c][h]: "idle", "waiting", "got" or "cancelled"
    got       \* got[c][h]: the reply that h has returned

call    == <<at, targets, failed, kept>>
future  == <<done, first, get, got>>
busVars == <<vars, tagVars, call, future>>

BusInit ==
    /\ Init /\ TagInit
    /\ at = [c \in Matchers |-> "idle"]
    /\ targets = [c \in Matchers |-> <<>>]
    /\ failed = {}
    /\ kept = {}
    /\ done = [c \in Matchers |-> NoReply]
    /\ first = [c \in Matchers |-> NoReply]
    /\ get = [c \in Matchers |-> [h \in Holders |-> "idle"]]
    /\ got = [c \in Matchers |-> [h \in Holders |-> NoReply]]

-------------------------------------------------------------------------------
(* The provider on the bus: registerMethod is an Add to the bucket of the       *)
(* method's topic, and unlisten a Remove from it.                               *)

RegisterOnBus(r) ==
    /\ RegisterMethod(r)
    /\ \E l \in listening' \ listening : IF l \in Listeners THEN Add(l) ELSE UNCHANGED tagVars
    /\ UNCHANGED <<call, future>>

UnlistenBegins(u) ==
    /\ pc[u] = "removing"
    /\ \E l \in todo[u] : RemoveBegins(l)
    /\ UNCHANGED <<vars, call, future>>

UnlistenEnds(u) ==
    /\ remover \in todo[u]
    /\ Unlisten(u) /\ listening' = listening \ {remover}
    /\ RemoveEnds
    /\ UNCHANGED <<call, future>>

UnlistenElsewhere(u) ==
    /\ Unlisten(u) /\ listening \ listening' \subseteq (Registrars \X Methods) \ Listeners
    /\ UNCHANGED <<tagVars, call, future>>

Provider ==
    \/ \E r \in Registrars : \/ RegisterOnBus(r)
                             \/ (Reserve(r) \/ Store(r)) /\ UNCHANGED <<tagVars, call, future>>
    \/ \E u \in Unregistrars :
          \/ UnlistenBegins(u) \/ UnlistenEnds(u) \/ UnlistenElsewhere(u)
          \/ MayUnregister /\ TakeRecords(u) /\ UNCHANGED <<tagVars, call, future>>
          \/ UnregisterEnds(u) /\ UNCHANGED <<tagVars, call, future>>

(* Other listeners come and go (ListenOn and its unlisten). *)
Bucket ==
    /\ \/ \E l \in Others : Add(l) \/ RemoveBegins(l)
       \/ RemoveMoves \/ RemoveClears
       \/ remover \in Others /\ RemoveEnds
    /\ UNCHANGED <<vars, call, future>>

-------------------------------------------------------------------------------
(* CallOn: Match and Dispatch in the caller's goroutine. *)

CallBegins(c) ==
    /\ at[c] = "idle"
    /\ MatchBegins(c)
    /\ at' = [at EXCEPT ![c] = "matching"]
    /\ UNCHANGED <<vars, targets, failed, kept, future>>

CallMatches(c) ==
    /\ at[c] = "matching"
    /\ MatchReads(c)
    /\ at' = IF Last(result'[c]) = Nil THEN [at EXCEPT ![c] = "panicked"] ELSE at
    /\ UNCHANGED <<vars, targets, failed, kept, future>>

CallDispatches(c) ==
    /\ at[c] = "matching"
    /\ MatchEnds(c)
    /\ at' = [at EXCEPT ![c] = "dispatching"]
    /\ targets' = [targets EXCEPT ![c] = result[c]]
    /\ UNCHANGED <<vars, failed, kept, future>>

(* Mutant: the last reply wins. *)
SettleLatest(c, l) ==
    /\ done' = [done EXCEPT ![c] = l]
    /\ first' = IF first[c] = NoReply THEN [first EXCEPT ![c] = l] ELSE first
    /\ UNCHANGED <<get, got>>

(* settle never waits: a reply that finds the channel full is dropped. *)
Settle(c, l) ==
    /\ done' = IF done[c] = NoReply THEN [done EXCEPT ![c] = l] ELSE done
    /\ first' = IF first[c] = NoReply THEN [first EXCEPT ![c] = l] ELSE first
    /\ UNCHANGED <<get, got>>

Run(c, l) == at[c] = "dispatching" /\ targets[c] # <<>> /\ l = Head(targets[c])
Go(c, ls) == targets' = [targets EXCEPT ![c] = ls] /\ UNCHANGED <<at, vars, tagVars>>

(* ListenCallOn: the handler's result or its error is the reply. *)
HandlerReplies(c, l) ==
    /\ Run(c, l)
    /\ Settle(c, l)
    /\ Go(c, Tail(targets[c]))
    /\ UNCHANGED <<failed, kept>>

(* Mutant: a listener that does not reply ends the distribution. *)
ListenerKeepsSinkAlone(c, l) ==
    /\ Run(c, l) /\ l \in Others
    /\ kept' = kept \cup {<<c, l>>}
    /\ Go(c, <<>>)
    /\ UNCHANGED <<failed, future>>

ListenerKeepsSink(c, l) ==
    /\ Run(c, l) /\ l \in Others
    /\ kept' = kept \cup {<<c, l>>}
    /\ Go(c, Tail(targets[c]))
    /\ UNCHANGED <<failed, future>>

(* The first error stops the distribution; CallOn ignores it. *)
ListenerFails(c, l) ==
    /\ Run(c, l) /\ l \in Others
    /\ failed' = failed \cup {c}
    /\ Go(c, <<>>)
    /\ UNCHANGED <<kept, future>>

CallReturns(c) ==
    /\ at[c] = "dispatching" /\ targets[c] = <<>>
    /\ at' = [at EXCEPT ![c] = "called"]
    /\ UNCHANGED <<vars, tagVars, targets, failed, kept, future>>

LateReply(c, l) ==
    /\ <<c, l>> \in kept
    /\ kept' = kept \ {<<c, l>>}
    /\ Settle(c, l)
    /\ UNCHANGED <<vars, tagVars, at, targets, failed>>

-------------------------------------------------------------------------------
(* Future.Get: a select of the reply and the context, either when both are      *)
(* ready.                                                                       *)

StartGet(c, h) ==
    /\ at[c] = "called" /\ get[c][h] = "idle"
    /\ get' = [get EXCEPT ![c][h] = "waiting"]
    /\ UNCHANGED <<vars, tagVars, call, done, first, got>>

GetReply(c, h) ==
    /\ get[c][h] = "waiting" /\ done[c] # NoReply
    /\ got' = [got EXCEPT ![c][h] = done[c]]
    /\ done' = [done EXCEPT ![c] = NoReply]
    /\ get' = [get EXCEPT ![c][h] = "got"]
    /\ UNCHANGED <<vars, tagVars, call, first>>

GetCancelled(c, h) ==
    /\ get[c][h] = "waiting"
    /\ get' = [get EXCEPT ![c][h] = "cancelled"]
    /\ UNCHANGED <<vars, tagVars, call, done, first, got>>

CallStep(c) ==
    \/ CallBegins(c) \/ CallMatches(c) \/ CallDispatches(c) \/ CallReturns(c)
    \/ \E l \in Listeners : \/ HandlerReplies(c, l) \/ ListenerKeepsSink(c, l)
                            \/ ListenerFails(c, l) \/ LateReply(c, l)
    \/ \E h \in Holders : StartGet(c, h) \/ GetReply(c, h) \/ GetCancelled(c, h)

BusNext == Provider \/ Bucket \/ \E c \in Matchers : CallStep(c)

BusSpec == BusInit /\ [][BusNext]_busVars

-------------------------------------------------------------------------------
BusTypeOK ==
    /\ TypeOK /\ TagTypeOK
    /\ at \in [Matchers -> {"idle", "matching", "dispatching", "called", "panicked"}]
    /\ \A c \in Matchers : targets[c] \in Seq(Listeners)
    /\ failed \subseteq Matchers
    /\ kept \subseteq Matchers \X Others
    /\ done \in [Matchers -> Listeners \cup {NoReply}]
    /\ first \in [Matchers -> Listeners \cup {NoReply}]
    /\ get \in [Matchers -> [Holders -> {"idle", "waiting", "got", "cancelled"}]]
    /\ got \in [Matchers -> [Holders -> Listeners \cup {NoReply}]]

Gotten(c) == {h \in Holders : get[c][h] = "got"}

(* The first reply wins: until a holder has taken it, it is what the next Get   *)
(* returns, whoever replies later; and some holder gets it before any other     *)
(* reply is got.                                                                *)
FirstReplyWins ==
    \A c \in Matchers :
        /\ Gotten(c) = {} => done[c] = first[c]
        /\ Gotten(c) # {} => \E h \in Gotten(c) : got[c][h] = first[c]

(* A provider that is registered all the time answers: a call that no removal    *)
(* disturbs, and whose distribution no error ends, has its reply when CallOn     *)
(* returns, so that Get does not wait for the context.                           *)
CallIsAnswered ==
    \A c \in Matchers :
        at[c] = "called" /\ c \notin failed /\ ever[c] \subseteq Listening
            /\ always[c] \ Others # {}
        => first[c] # NoReply
===============================================================================
