---------------------------- MODULE DamiBusProofs ----------------------------
(* Proofs about DamiBus and about DamiLpc, which it composes: for any sets of    *)
(* registrations, removals and methods the slot of a provider type lists exactly *)
(* what listens on the bus; a step of the bus is a step of DamiLpc or leaves it  *)
(* alone, so this holds on the bus; and the first reply wins for any listeners,  *)
(* calls and holders.                                                            *)
EXTENDS DamiBus, SequenceTheorems, TLAPS

(* The registration of providers, DamiLpc alone.                                 *)

(* The invariant holds initially. *)
LEMMA InitInv == Init => Inv
<1> SUFFICES ASSUME Init PROVE Inv
  OBVIOUS
<1>1. TypeOK
  BY DEF Init, TypeOK
<1>2. Roles /\ Reserved /\ OneOwner
  BY LpcAssumption DEF Init, Roles, Reserved, OneOwner, Procs
<1>3. Settled /\ Accounted
  BY LpcAssumption DEF Init, Settled, Accounted, Removing, Procs
<1> QED
  BY <1>1, <1>2, <1>3 DEF Inv

-------------------------------------------------------------------------------
(* Every action preserves Inv.  No action of one side changes pc or todo of the *)
(* other, which is the step that Settled and Accounted rest on.                *)

(* Refused, nothing changes; else the slot is free and nobody else registers.  *)
LEMMA ReserveKeepsInv ==
    ASSUME Inv, NEW r \in Registrars, Reserve(r)
    PROVE  Inv'
<1> USE LpcAssumption DEF Inv, TypeOK, Reserve, Goto, Procs
<1>1. CASE exists
  <2>1. TypeOK' /\ Roles'
    BY <1>1 DEF Roles
  <2>2. Reserved' /\ OneOwner'
    BY <1>1 DEF Reserved, OneOwner
  <2>3. \A u \in Unregistrars : pc'[u] = pc[u] /\ todo'[u] = todo[u]
    BY <1>1
  <2>4. Settled'
    BY <1>1, <2>3 DEF Settled, Removing
  <2>5. Accounted'
    BY <1>1, <2>3 DEF Accounted, Removing
  <2> QED
    BY <2>1, <2>2, <2>4, <2>5
<1>2. CASE ~exists
  <2>1. TypeOK' /\ Roles'
    BY <1>2 DEF Roles
  <2>2. Reserved' /\ OneOwner'
    BY <1>2 DEF Reserved, OneOwner
  <2>3. \A u \in Unregistrars : pc'[u] = pc[u] /\ todo'[u] = todo[u]
    BY <1>2
  <2>4. Settled'
    BY <1>2, <2>3 DEF Settled, Removing, OneOwner
  <2>5. Accounted'
    BY <1>2, <2>3 DEF Accounted, Removing, Settled, OneOwner
  <2> QED
    BY <2>1, <2>2, <2>4, <2>5
<1> QED
  BY <1>1, <1>2

(* One listener more on the bus is one less to be registered.                  *)
LEMMA RegisterMethodKeepsInv ==
    ASSUME Inv, NEW r \in Registrars, RegisterMethod(r)
    PROVE  Inv'
<1> USE LpcAssumption DEF Inv, TypeOK, RegisterMethod, Procs
<1>1. PICK x \in todo[r] : /\ listening' = listening \cup {x}
                           /\ todo' = [todo EXCEPT ![r] = @ \ {x}]
  OBVIOUS
<1>2. x \in Registrars \X Methods /\ x[1] = r
  BY DEF Reserved
<1>3. TypeOK' /\ Roles'
  BY <1>1, <1>2 DEF Roles
<1>4. Reserved' /\ OneOwner'
  BY <1>1 DEF Reserved, OneOwner
<1>5. \A u \in Unregistrars : pc'[u] = pc[u] /\ todo'[u] = todo[u]
  BY <1>1
<1>6. Settled'
  BY <1>5 DEF Settled, Removing
<1>7. Accounted'
  <2> SUFFICES ASSUME NEW y \in Registrars \X Methods
               PROVE  y \in listening' <=> \/ y \in records
                                           \/ pc[y[1]] = "registering" /\ y \notin todo'[y[1]]
                                           \/ Removing(y)
    BY <1>5 DEF Accounted, Removing
  <2>1. CASE y = x
    BY <2>1, <1>1, <1>2
  <2>2. CASE y # x
    BY <2>2, <1>1, <1>2 DEF Accounted
  <2> QED
    BY <2>1, <2>2
<1> QED
  BY <1>3, <1>4, <1>6, <1>7

(* The list that is stored is all that has been registered. *)
LEMMA StoreKeepsInv ==
    ASSUME Inv, NEW r \in Registrars, Store(r)
    PROVE  Inv'
<1> USE LpcAssumption DEF Inv, TypeOK, Store, Goto, Procs
<1>1. TypeOK' /\ Roles'
  BY DEF Roles
<1>2. Reserved' /\ OneOwner'
  BY DEF Reserved, OneOwner
<1>3. \A u \in Unregistrars : pc'[u] = pc[u] /\ todo'[u] = todo[u]
  OBVIOUS
<1>4. \A x \in Registrars \X Methods : x[1] = r => ~Removing(x) /\ x \notin records
  BY DEF Settled
<1>5. Settled'
  BY <1>3, <1>4 DEF Settled, Removing, Reserved
<1>6. Accounted'
  BY <1>3, <1>4 DEF Accounted, Removing, Reserved
<1> QED
  BY <1>1, <1>2, <1>5, <1>6

(* Taking the slot of a type that nobody is registering moves what it lists to *)
(* the list of what is to be removed.                                          *)
LEMMA TakeRecordsKeepsInv ==
    ASSUME Inv, Careful, NEW u \in Unregistrars, MayUnregister, TakeRecords(u)
    PROVE  Inv'
<1> USE LpcAssumption DEF Inv, TypeOK, MayUnregister, TakeRecords, Goto, Procs
<1>1. TypeOK' /\ Roles'
  BY DEF Roles
<1>2. Reserved' /\ OneOwner'
  BY DEF Reserved, OneOwner
<1>3. \A x : Removing(x)' <=> Removing(x) \/ x \in records
  BY DEF Removing
<1>4. \A r \in Registrars : pc'[r] = pc[r] /\ todo'[r] = todo[r]
  OBVIOUS
<1>5. Settled'
  <2>1. \A x \in Registrars \X Methods : Removing(x)' => pc'[x[1]] = "registered"
    BY <1>3, <1>4 DEF Settled
  <2>2. ASSUME NEW v \in Unregistrars, NEW w \in Unregistrars, v # w,
               pc'[v] = "removing", pc'[w] = "removing"
        PROVE  todo'[v] \cap todo'[w] = {}
    BY <2>2 DEF Settled, Removing
  <2> QED
    BY <2>1, <2>2 DEF Settled
<1>6. Accounted'
  BY <1>3, <1>4 DEF Accounted
<1> QED
  BY <1>1, <1>2, <1>5, <1>6

(* What is removed from the bus was on nobody else's list. *)
LEMMA UnlistenKeepsInv ==
    ASSUME Inv, NEW u \in Unregistrars, Unlisten(u)
    PROVE  Inv'
<1> USE LpcAssumption DEF Inv, TypeOK, Unlisten, Procs
<1>1. PICK x \in todo[u] : /\ listening' = listening \ {x}
                           /\ todo' = [todo EXCEPT ![u] = @ \ {x}]
  OBVIOUS
<1>2. TypeOK' /\ Roles'
  BY <1>1 DEF Roles
<1>3. \A r \in Registrars : pc'[r] = pc[r] /\ todo'[r] = todo[r]
  BY <1>1
<1>4. Reserved' /\ OneOwner'
  BY <1>1, <1>3 DEF Reserved, OneOwner
<1>5. Removing(x) /\ x \in Registrars \X Methods
  BY DEF Removing
<1>6. \A v \in Unregistrars : pc[v] = "removing" /\ x \in todo[v] => v = u
  BY DEF Settled
<1>7. \A y : Removing(y)' <=> Removing(y) /\ y # x
  BY <1>1, <1>6 DEF Removing
<1>8. Settled'
  <2>1. \A v \in Unregistrars : todo'[v] \subseteq todo[v] /\ pc'[v] = pc[v]
    BY <1>1
  <2> QED
    BY <1>3, <1>7, <2>1 DEF Settled
<1>9. Accounted'
  BY <1>1, <1>3, <1>5, <1>7 DEF Accounted, Settled
<1> QED
  BY <1>2, <1>4, <1>8, <1>9

(* A removal ends with nothing on its list. *)
LEMMA UnregisterEndsKeepsInv ==
    ASSUME Inv, NEW u \in Unregistrars, UnregisterEnds(u)
    PROVE  Inv'
<1> USE LpcAssumption DEF Inv, TypeOK, UnregisterEnds, Goto, Procs
<1>1. TypeOK' /\ Roles'
  BY DEF Roles
<1>2. Reserved' /\ OneOwner'
  BY DEF Reserved, OneOwner
<1>3. \A x : Removing(x)' <=> Removing(x)
  BY DEF Removing
<1>4. Settled'
  BY <1>3 DEF Settled
<1>5. Accounted'
  BY <1>3 DEF Accounted
<1> QED
  BY <1>1, <1>2, <1>4, <1>5

(* Every step, a stuttering one as well, preserves Inv. *)
LEMMA NextInv == ASSUME Careful PROVE Inv /\ [Next]_vars => Inv'
<1> SUFFICES ASSUME Inv, [Next]_vars PROVE Inv'
  OBVIOUS
<1>1. ASSUME NEW r \in Registrars, Reserve(r) \/ RegisterMethod(r) \/ Store(r)
      PROVE  Inv'
  BY <1>1, ReserveKeepsInv, RegisterMethodKeepsInv, StoreKeepsInv
<1>2. ASSUME NEW u \in Unregistrars,
             (MayUnregister /\ TakeRecords(u)) \/ Unlisten(u) \/ UnregisterEnds(u)
      PROVE  Inv'
  BY <1>2, TakeRecordsKeepsInv, UnlistenKeepsInv, UnregisterEndsKeepsInv
<1>3. CASE UNCHANGED vars
  BY <1>3 DEF vars, Inv, TypeOK, Roles, Reserved, OneOwner, Settled, Removing, Accounted
<1> QED
  BY <1>1, <1>2, <1>3 DEF Next

-------------------------------------------------------------------------------
(* The invariant of RegisterProvider and UnregisterProvider, for a type that   *)
(* nobody unregisters while it is being registered.                            *)
THEOREM Invariance == ASSUME Careful PROVE Spec => []Inv
  BY InitInv, NextInv, PTL DEF Spec

(* What listens on the bus when no registration and no removal is under way is *)
(* what the slot lists: UnregisterProvider forgets no listener and removes     *)
(* none of another registration.                                               *)
THEOREM SlotIsExact == ASSUME Careful PROVE Spec => []SlotListsListeners
<1>1. Inv => SlotListsListeners
  BY DEF Inv, TypeOK, Accounted, Removing, SlotListsListeners, Active, Procs
<1> QED
  BY <1>1, Invariance, PTL

(* However many goroutines register one provider type at once, a method is     *)
(* listened to at most once.                                                   *)
THEOREM OneRegistration == ASSUME Careful PROVE Spec => []RegisteredOnce
<1>1. Inv => RegisteredOnce
  <2> SUFFICES ASSUME Inv, Active = {}, NEW x \in listening, NEW y \in listening, x[2] = y[2]
               PROVE  x = y
    BY DEF RegisteredOnce
  <2>1. x \in Registrars \X Methods /\ y \in Registrars \X Methods
    BY DEF Inv, TypeOK
  <2>2. x \in records /\ y \in records
    BY <2>1 DEF Inv, Accounted, Removing, Active, Procs
  <2>3. x[1] = y[1]
    BY <2>2 DEF Inv, OneOwner
  <2> QED
    BY <2>1, <2>3
<1> QED
  BY <1>1, Invariance, PTL

-------------------------------------------------------------------------------
(* The bus.                                                                      *)

(* Initially, and with every step, the bus does to the provider's slot and its   *)
(* listeners what DamiLpc allows.                                                *)
LEMMA StepIsLpc ==
    ASSUME BusNext
    PROVE  [Next]_vars
<1>1. CASE Provider
  BY <1>1 DEF Provider, RegisterOnBus, UnlistenBegins, UnlistenEnds, UnlistenElsewhere, Next
<1>2. CASE Bucket
  BY <1>2 DEF Bucket
<1>3. CASE \E c \in Matchers : CallStep(c)
  <2> SUFFICES ASSUME NEW c \in Matchers, CallStep(c) PROVE UNCHANGED vars
    BY <1>3
  <2>1. CASE CallBegins(c) \/ CallMatches(c) \/ CallDispatches(c) \/ CallReturns(c)
    BY <2>1 DEF CallBegins, CallMatches, CallDispatches, CallReturns
  <2>2. CASE \E l \in Listeners : \/ HandlerReplies(c, l) \/ ListenerKeepsSink(c, l)
                                  \/ ListenerFails(c, l) \/ LateReply(c, l)
    BY <2>2 DEF HandlerReplies, ListenerKeepsSink, ListenerFails, LateReply, Go
  <2>3. CASE \E h \in Holders : StartGet(c, h) \/ GetReply(c, h) \/ GetCancelled(c, h)
    BY <2>3 DEF StartGet, GetReply, GetCancelled
  <2> QED
    BY <2>1, <2>2, <2>3 DEF CallStep
<1> QED
  BY <1>1, <1>2, <1>3 DEF BusNext

(* The bus implements the registration: BusSpec is a Spec of DamiLpc.            *)
THEOREM BusRegisters == BusSpec => Spec
<1>1. BusInit => Init
  BY DEF BusInit
<1>2. [BusNext]_busVars => [Next]_vars
  <2>1. UNCHANGED busVars => UNCHANGED vars
    BY DEF busVars
  <2> QED
    BY <2>1, StepIsLpc
<1> QED
  BY <1>1, <1>2, PTL DEF BusSpec, Spec

(* So the slot of the provider lists exactly what listens on the bus when no     *)
(* registration or removal is under way.                                         *)
THEOREM BusSlotIsExact ==
    ASSUME Careful
    PROVE  BusSpec => []SlotListsListeners
  BY BusRegisters, SlotIsExact

(* And a method of the provider has one listener on the bus.                     *)
THEOREM BusOneRegistration ==
    ASSUME Careful
    PROVE  BusSpec => []RegisteredOnce
  BY BusRegisters, OneRegistration
-------------------------------------------------------------------------------
(* The first reply wins.  As long as no holder has taken it, the channel holds   *)
(* it: replies are put only into an empty channel, and taken only by a holder.   *)

(* The types of a call's Future. *)
FutureTypeOK ==
    /\ done \in [Matchers -> Listeners \cup {NoReply}]
    /\ first \in [Matchers -> Listeners \cup {NoReply}]
    /\ get \in [Matchers -> [Holders -> {"idle", "waiting", "got", "cancelled"}]]
    /\ got \in [Matchers -> [Holders -> Listeners \cup {NoReply}]]

(* What a holder has got is a reply. *)
GotIsReply ==
    \A c \in Matchers, h \in Holders : get[c][h] = "got" => got[c][h] # NoReply

FutureInv == FutureTypeOK /\ GotIsReply /\ FirstReplyWins

(* A reply does not change what has been first. *)
LEMMA SettleKeepsFutureInv ==
    ASSUME FutureInv, NEW c \in Matchers, NEW l \in Listeners, Settle(c, l)
    PROVE  FutureInv'
<1> USE BusAssumption DEF FutureInv, FutureTypeOK, Settle
<1>1. FutureTypeOK'
  OBVIOUS
<1>2. GotIsReply'
  BY DEF GotIsReply
<1>3. FirstReplyWins'
  <2> SUFFICES ASSUME NEW d \in Matchers
               PROVE  /\ Gotten(d)' = {} => done'[d] = first'[d]
                      /\ Gotten(d)' # {} => \E h \in Gotten(d)' : got'[d][h] = first'[d]
    BY DEF FirstReplyWins
  <2>1. Gotten(d)' = Gotten(d)
    BY DEF Gotten
  <2>2. CASE d # c
    BY <2>1, <2>2 DEF FirstReplyWins
  <2>3. CASE d = c /\ Gotten(d) = {}
    BY <2>1, <2>3 DEF FirstReplyWins
  <2>4. CASE d = c /\ Gotten(d) # {}
    <3>1. PICK h \in Gotten(d) : got[d][h] = first[d]
      BY <2>4 DEF FirstReplyWins
    <3>2. first[d] # NoReply
      BY <3>1 DEF Gotten, GotIsReply
    <3>3. first'[d] = first[d] /\ got'[d][h] = got[d][h]
      BY <3>2, <2>4
    <3> QED
      BY <2>1, <2>4, <3>1, <3>3
  <2> QED
    BY <2>2, <2>3, <2>4
<1> QED
  BY <1>1, <1>2, <1>3

(* Getting takes the first reply, or one after it has been taken. *)
LEMMA GetKeepsFutureInv ==
    ASSUME FutureInv, NEW c \in Matchers, NEW h \in Holders,
           StartGet(c, h) \/ GetReply(c, h) \/ GetCancelled(c, h)
    PROVE  FutureInv'
<1> USE BusAssumption DEF FutureInv, FutureTypeOK, GotIsReply, FirstReplyWins, Gotten
<1>1. CASE StartGet(c, h)
  <2>1. FutureTypeOK'
    BY <1>1 DEF StartGet
  <2>2. GotIsReply'
    BY <1>1 DEF StartGet
  <2>3. FirstReplyWins'
    BY <1>1 DEF StartGet
  <2> QED
    BY <2>1, <2>2, <2>3
<1>2. CASE GetReply(c, h)
  <2>1. FutureTypeOK'
    BY <1>2 DEF GetReply
  <2>2. GotIsReply'
    BY <1>2 DEF GetReply
  <2>3. FirstReplyWins'
    BY <1>2 DEF GetReply
  <2> QED
    BY <2>1, <2>2, <2>3
<1>3. CASE GetCancelled(c, h)
  <2>1. FutureTypeOK'
    BY <1>3 DEF GetCancelled
  <2>2. GotIsReply'
    BY <1>3 DEF GetCancelled
  <2>3. FirstReplyWins'
    BY <1>3 DEF GetCancelled
  <2> QED
    BY <2>1, <2>2, <2>3
<1> QED
  BY <1>1, <1>2, <1>3

(* Every step keeps it. *)
LEMMA NextFutureInv ==
    ASSUME FutureInv, [BusNext]_busVars
    PROVE  FutureInv'
<1>1. CASE UNCHANGED future
  BY <1>1 DEF future, FutureInv, FutureTypeOK, GotIsReply, FirstReplyWins, Gotten
<1>2. ASSUME NEW c \in Matchers, CallStep(c), ~UNCHANGED future
      PROVE  FutureInv'
  <2>1. CASE \E l \in Listeners : HandlerReplies(c, l) \/ LateReply(c, l)
    <3> HIDE DEF future
    <3> QED
      BY <2>1, SettleKeepsFutureInv DEF HandlerReplies, LateReply
  <2>2. CASE \E h \in Holders : StartGet(c, h) \/ GetReply(c, h) \/ GetCancelled(c, h)
    BY <2>2, GetKeepsFutureInv
  <2> QED
    BY <1>2, <2>1, <2>2
    DEF CallStep, CallBegins, CallMatches, CallDispatches, CallReturns, ListenerKeepsSink, ListenerFails
<1>3. CASE Provider \/ Bucket \/ UNCHANGED busVars
  <2>1. UNCHANGED future
    BY <1>3 DEF Provider, Bucket, RegisterOnBus, UnlistenBegins, UnlistenEnds, UnlistenElsewhere, busVars
  <2> QED
    BY <1>1, <2>1
<1> QED
  BY <1>1, <1>2, <1>3 DEF BusNext

(* The first reply to a call is the one its first Get returns, however many      *)
(* listeners reply, in time or late, and however many holders wait.              *)
THEOREM FirstWins == BusSpec => []FirstReplyWins
<1>1. BusInit => FutureInv
  BY BusAssumption DEF BusInit, FutureInv, FutureTypeOK, GotIsReply, FirstReplyWins, Gotten
<1>2. FutureInv => FirstReplyWins
  BY DEF FutureInv
<1> QED
  BY <1>1, <1>2, NextFutureInv, PTL DEF BusSpec

-------------------------------------------------------------------------------
(* One bucket of the router.                                                     *)

Cells == Listeners \cup {Nil}

(* The types of the bucket and of the executions of Match that read it; the      *)
(* array a Match has read is at least as long as its slice.                      *)
BucketTypes ==
    /\ array \in Seq(Seq(Cells)) /\ array # <<>>
    /\ length \in Nat /\ length <= Len(Array)
    /\ status \in [Listeners -> {"new", "listening", "gone"}]
    /\ remover \in Removes \cup {Nobody}
    /\ from \in Nat /\ to \in Nat

ScanTypes ==
    /\ slice \in [Matchers -> [array : Nat, length : Nat]]
    /\ next \in [Matchers -> Nat]
    /\ result \in [Matchers -> Seq(Cells)]
    /\ always \in [Matchers -> SUBSET Listeners]
    /\ ever \in [Matchers -> SUBSET Listeners]
    /\ \A m \in Matchers :
        /\ slice[m].array \in 1..Len(array)
        /\ slice[m].length <= Len(array[slice[m].array])
        /\ next[m] <= slice[m].length + 1

(* The cells S of an array hold the listeners L, each once.                      *)
Lists(A, S, L) ==
    /\ \A i \in S : A[i] \in L
    /\ \A i, j \in S : A[i] = A[j] => i = j
    /\ \A l \in L : \E i \in S : A[i] = l

(* The bucket's cells hold what listens.  While DeleteFunc is at work one of     *)
(* them is left over: the one that it writes next, and the last at the end.      *)
LeftOver == IF to <= length THEN to ELSE length

Live == IF remover = Nobody THEN 1..length ELSE (1..length) \ {LeftOver}

BucketExact ==
    /\ Lists(Array, Live, Listening)
    /\ remover # Nobody =>
          /\ to \in 1..(length + 1) /\ length > 0
          /\ from = IF to <= length THEN to + 1 ELSE length + 1
          /\ status[remover] = "gone"
    /\ remover = Nobody => from = 0 /\ to = 0

(* A Match reads what was the bucket when it began, and what a Remove has since  *)
(* made of it.  Nobody has removed what an undisturbed one knows of: the cells   *)
(* of its slice are still those of the bucket then, for an Add writes behind     *)
(* them.                                                                         *)
Undisturbed(m) == ever[m] \subseteq Listening

AsItWas(m) ==
    LET A == array[slice[m].array] IN
    /\ remover = Nobody
    /\ slice[m].array = Len(array) => slice[m].length <= length
    /\ Lists(A, 1..slice[m].length, always[m])
    /\ Len(result[m]) = next[m] - 1
    /\ \A i \in 1..(next[m] - 1) : result[m][i] = A[i]

Scans ==
    \A m \in Matchers :
        /\ \A l \in ever[m] : status[l] # "new"
        /\ always[m] \subseteq ever[m]
        /\ m \in Scanning => Listening \subseteq ever[m]
        /\ m \in Scanning /\ Undisturbed(m) => AsItWas(m)

TagInv == BucketTypes /\ ScanTypes /\ BucketExact /\ Scans

(* What lists L on S does so wherever the cells are the same; with one cell      *)
(* more, or less, or elsewhere, it lists one listener more, or less, or the same.*)
LEMMA SameCells ==
    ASSUME NEW A, NEW B, NEW S, NEW L, Lists(A, S, L), \A i \in S : B[i] = A[i]
    PROVE  Lists(B, S, L)
    BY DEF Lists

LEMMA OneMore ==
    ASSUME NEW A, NEW B, NEW S, NEW L, NEW k, NEW x, k \notin S, x \notin L,
           Lists(A, S, L), \A i \in S : B[i] = A[i], B[k] = x
    PROVE  Lists(B, S \cup {k}, L \cup {x})
    BY DEF Lists

LEMMA OneLess ==
    ASSUME NEW A, NEW S, NEW L, NEW k \in S, Lists(A, S, L)
    PROVE  Lists(A, S \ {k}, L \ {A[k]})
    BY DEF Lists

LEMMA OneMoved ==
    ASSUME NEW A, NEW B, NEW S, NEW L, NEW k, NEW j \in S, k \notin S,
           Lists(A, S, L), \A i \in S \ {j} : B[i] = A[i], B[k] = A[j]
    PROVE  Lists(B, (S \ {j}) \cup {k}, L)
<1>1. \A i \in S \ {j} : B[i] = A[i] /\ i # k
    OBVIOUS
<1>2. \A i \in (S \ {j}) \cup {k} : B[i] \in L
    BY <1>1 DEF Lists
<1>3. \A h, i \in (S \ {j}) \cup {k} : B[h] = B[i] => h = i
    BY <1>1 DEF Lists
<1>4. \A l \in L : \E i \in (S \ {j}) \cup {k} : B[i] = l
  <2> SUFFICES ASSUME NEW l \in L PROVE \E i \in (S \ {j}) \cup {k} : B[i] = l
      OBVIOUS
  <2>1. PICK i \in S : A[i] = l
      BY DEF Lists
  <2>2. CASE i = j
      BY <2>1, <2>2
  <2>3. CASE i # j
      BY <1>1, <2>1, <2>3
  <2> QED
      BY <2>2, <2>3
<1> QED
    BY <1>2, <1>3, <1>4 DEF Lists

(* A cell is written in the array in use, and in no other.                       *)
LEMMA CellWrites ==
    ASSUME BucketTypes, NEW i \in 1..Len(Array), NEW v \in Cells, Cell(i, v)
    PROVE  /\ array' \in Seq(Seq(Cells)) /\ array' # <<>>
           /\ Len(array') = Len(array)
           /\ Len(Array') = Len(Array)
           /\ Array'[i] = v
           /\ \A k \in 1..Len(Array) : k # i => Array'[k] = Array[k]
           /\ \A k \in 1..Len(array) : /\ Len(array'[k]) = Len(array[k])
                                       /\ k # Len(array) => array'[k] = array[k]
<1> USE DEF BucketTypes, Array, Cell
<1> DEFINE n == Len(array)
           B == [array[n] EXCEPT ![i] = v]
<1>1. n \in Nat /\ n > 0 /\ array[n] \in Seq(Cells)
    OBVIOUS
<1>2. B \in Seq(Cells) /\ Len(B) = Len(array[n]) /\ B[i] = v
      /\ \A k \in 1..Len(array[n]) : k # i => B[k] = array[n][k]
    BY <1>1
<1>3. array' = [array EXCEPT ![n] = B]
    OBVIOUS
<1> HIDE DEF B
<1>4. array' \in Seq(Seq(Cells)) /\ Len(array') = n /\ array'[n] = B
      /\ \A k \in 1..n : k # n => array'[k] = array[k]
    BY <1>1, <1>2, <1>3
<1> QED
    BY <1>1, <1>2, <1>4

(* A full array is copied into a longer one.                                     *)
LEMMA FreshCopies ==
    ASSUME BucketTypes, NEW l \in Listeners, array' = Append(array, Fresh(l))
    PROVE  /\ array' \in Seq(Seq(Cells)) /\ array' # <<>>
           /\ Len(array') = Len(array) + 1
           /\ \A k \in 1..Len(array) : array'[k] = array[k]
           /\ Len(Array') > length
           /\ \A i \in 1..length : Array'[i] = Array[i]
           /\ Array'[length + 1] = l
<1> USE DEF BucketTypes
<1> DEFINE P == SubSeq(Array, 1, length)
           k == IF length = 0 THEN 0 ELSE length - 1
           Q == [i \in 1..k |-> Nil]
<1>1. Array \in Seq(Cells)
    BY DEF Array
<1>2. P \in Seq(Cells) /\ Len(P) = length /\ \A i \in 1..length : P[i] = Array[i]
    BY <1>1
<1>3. Q \in Seq(Cells) /\ Len(Q) = k /\ k \in Nat
    BY DEF Cells
<1>4. <<l>> \in Seq(Cells) /\ Len(<<l>>) = 1 /\ <<l>>[1] = l
    BY DEF Cells
<1>5. Fresh(l) = (P \o <<l>>) \o Q
    BY DEF Fresh
<1> HIDE DEF P, Q, k
<1>6. /\ P \o <<l>> \in Seq(Cells) /\ Len(P \o <<l>>) = length + 1
      /\ \A i \in 1..length : (P \o <<l>>)[i] = Array[i]
      /\ (P \o <<l>>)[length + 1] = l
  <2> DEFINE T == <<l>>
  <2>1. T \in Seq(Cells) /\ Len(T) = 1 /\ T[1] = l
      BY <1>4
  <2> HIDE DEF T
  <2>2. /\ P \o T \in Seq(Cells) /\ Len(P \o T) = Len(P) + Len(T)
        /\ \A i \in 1..(Len(P) + Len(T)) :
              (P \o T)[i] = IF i <= Len(P) THEN P[i] ELSE T[i - Len(P)]
      BY <1>2, <2>1, ConcatProperties
  <2>3. /\ P \o T \in Seq(Cells) /\ Len(P \o T) = length + 1
        /\ \A i \in 1..length : (P \o T)[i] = Array[i]
        /\ (P \o T)[length + 1] = l
    <3>1. length \in Nat
        OBVIOUS
    <3> HIDE DEF BucketTypes
    <3>2. \A i \in 1..length : (P \o T)[i] = Array[i]
        BY <1>2, <2>1, <2>2, <3>1
    <3>3. (P \o T)[length + 1] = T[(length + 1) - length]
        BY <1>2, <2>1, <2>2, <3>1
    <3>4. (length + 1) - length = 1
        BY <3>1
    <3> QED
        BY <1>2, <2>1, <2>2, <3>2, <3>3, <3>4
  <2> QED
      BY <2>3 DEF T
<1>7. /\ Fresh(l) \in Seq(Cells) /\ Len(Fresh(l)) = length + 1 + k
      /\ \A i \in 1..(length + 1) : Fresh(l)[i] = (P \o <<l>>)[i]
  <2> DEFINE T == P \o <<l>>
  <2>1. T \in Seq(Cells) /\ Len(T) = length + 1 /\ Fresh(l) = T \o Q
      BY <1>5, <1>6
  <2> HIDE DEF T
  <2>2. /\ T \o Q \in Seq(Cells) /\ Len(T \o Q) = Len(T) + Len(Q)
        /\ \A i \in 1..(Len(T) + Len(Q)) :
              (T \o Q)[i] = IF i <= Len(T) THEN T[i] ELSE Q[i - Len(T)]
      BY <1>3, <2>1, ConcatProperties
  <2>3. /\ Fresh(l) \in Seq(Cells) /\ Len(Fresh(l)) = length + 1 + k
        /\ \A i \in 1..(length + 1) : Fresh(l)[i] = T[i]
      BY <1>3, <2>1, <2>2
  <2> QED
      BY <2>3 DEF T
<1>8. /\ array' \in Seq(Seq(Cells)) /\ Len(array') = Len(array) + 1
      /\ \A j \in 1..Len(array) : array'[j] = array[j]
      /\ array'[Len(array) + 1] = Fresh(l)
    BY <1>7
<1>9. Array' = Fresh(l)
    BY <1>8 DEF Array
<1> QED
    BY <1>3, <1>6, <1>7, <1>8, <1>9

(* An Add writes behind what an undisturbed Match reads.                         *)
LEMMA AddKeepsTag ==
    ASSUME TagInv, NEW l \in Listeners, Add(l)
    PROVE  /\ TagInv'
           /\ \A m \in Matchers : Undisturbed(m)' => Undisturbed(m)
<1> USE TagRouterAssumption
<1> DEFINE n == Len(array)
<1>1. /\ status[l] = "new" /\ remover = Nobody /\ remover' = Nobody
      /\ length \in Nat /\ length' = length + 1 /\ length <= Len(Array)
      /\ status' = [status EXCEPT ![l] = "listening"]
      /\ UNCHANGED <<from, to, slice, next, result, always>>
      /\ Nobody \notin Listeners
    BY DEF TagInv, BucketTypes, Add, delete
<1>2. /\ l \notin Listening /\ Listening' = Listening \cup {l}
    BY <1>1 DEF Listening, TagInv, BucketTypes
<1>3. /\ array' \in Seq(Seq(Cells)) /\ array' # <<>>
      /\ Len(array') \in {n, n + 1} /\ n \in Nat
      /\ Len(Array') > length
      /\ Array'[length + 1] = l
      /\ \A i \in 1..length : Array'[i] = Array[i]
      /\ \A k \in 1..n : /\ Len(array'[k]) = Len(array[k])
                         /\ k # n \/ Len(array') # n => array'[k] = array[k]
  <2>1. CASE length < Len(Array)
    <3>1. length + 1 \in 1..Len(Array) /\ l \in Cells /\ Cell(length + 1, l)
        BY <1>1, <2>1 DEF Add, Cells, TagInv, BucketTypes, Array
    <3> QED
        BY <1>1, <3>1, CellWrites DEF TagInv, BucketTypes
  <2>2. CASE ~(length < Len(Array))
    <3>1. array' = Append(array, Fresh(l))
        BY <2>2 DEF Add
    <3> QED
        BY <1>1, <3>1, FreshCopies DEF TagInv, BucketTypes
  <2> QED
      BY <2>1, <2>2
<1>4. BucketTypes'
  <2>1. Len(Array') \in Nat /\ length' <= Len(Array')
    <3>1. Array' \in Seq(Cells)
        BY <1>3 DEF Array
    <3> QED
        BY <1>1, <1>3, <3>1
  <2> QED
      BY <1>1, <1>3, <2>1 DEF TagInv, BucketTypes
<1>5. ever' = [m \in Matchers |-> IF m \in Scanning THEN ever[m] \cup {l} ELSE ever[m]]
    BY DEF Add
<1>6. ScanTypes'
  <2>1. ever' \in [Matchers -> SUBSET Listeners]
      BY <1>5 DEF TagInv, ScanTypes
  <2>2. ASSUME NEW m \in Matchers
        PROVE  /\ slice[m].array \in 1..Len(array') /\ next[m] <= slice[m].length + 1
               /\ slice[m].length <= Len(array'[slice[m].array])
    <3>1. /\ slice[m].array \in 1..n /\ slice[m].length <= Len(array[slice[m].array])
          /\ next[m] <= slice[m].length + 1
        BY DEF TagInv, ScanTypes
    <3>2. 1..n \subseteq 1..Len(array')
        BY <1>3
    <3> QED
        BY <1>3, <3>1, <3>2
  <2> QED
      BY <1>1, <2>1, <2>2 DEF TagInv, ScanTypes
<1>7. BucketExact'
  <2>1. Lists(Array, 1..length, Listening)
      BY <1>1 DEF TagInv, BucketExact, Live
  <2>2. Lists(Array', (1..length) \cup {length + 1}, Listening \cup {l})
    <3>1. length + 1 \notin 1..length
        BY <1>1
    <3> QED
        BY <1>2, <1>3, <2>1, <3>1, OneMore
  <2>3. Live' = (1..length) \cup {length + 1}
      BY <1>1 DEF Live
  <2> QED
      BY <1>1, <1>2, <2>2, <2>3 DEF BucketExact, TagInv
<1>8. \A m \in Matchers : l \notin ever[m]
    BY <1>1 DEF TagInv, Scans
<1>9. \A m \in Matchers : Undisturbed(m)' => Undisturbed(m)
    BY <1>2, <1>5, <1>8 DEF Undisturbed
<1>10. Scans'
  <2> SUFFICES ASSUME NEW m \in Matchers
               PROVE  /\ \A k \in ever'[m] : status'[k] # "new"
                      /\ always'[m] \subseteq ever'[m]
                      /\ m \in Scanning' => Listening' \subseteq ever'[m]
                      /\ m \in Scanning' /\ Undisturbed(m)' => AsItWas(m)'
      BY DEF Scans
  <2>1. ever'[m] = IF m \in Scanning THEN ever[m] \cup {l} ELSE ever[m]
      BY <1>5
  <2>2. m \in Scanning' <=> m \in Scanning
      BY <1>1 DEF Scanning
  <2>3. \A k \in ever'[m] : status'[k] # "new"
      BY <1>1, <2>1 DEF TagInv, Scans, BucketTypes, ScanTypes
  <2>4. /\ always'[m] \subseteq ever'[m]
        /\ m \in Scanning' => Listening' \subseteq ever'[m]
      BY <1>1, <1>2, <2>1, <2>2 DEF TagInv, Scans
  <2>5. ASSUME m \in Scanning', Undisturbed(m)' PROVE AsItWas(m)'
    <3> DEFINE a == slice[m].array
               k == slice[m].length
    <3>1. /\ a \in 1..n /\ k \in Nat /\ slice'[m] = slice[m] /\ next'[m] = next[m]
          /\ result'[m] = result[m] /\ always'[m] = always[m]
          /\ next[m] \in Nat /\ next[m] <= k + 1
        BY <1>1 DEF TagInv, ScanTypes
    <3>2. AsItWas(m)
        BY <1>9, <2>2, <2>5 DEF TagInv, Scans
    <3>3. \A i \in 1..k : array'[a][i] = array[a][i]
      <4>1. CASE a # n \/ Len(array') # n
          BY <1>3, <3>1, <4>1
      <4>2. CASE a = n /\ Len(array') = n
        <5>1. k <= length
            BY <3>2, <4>2 DEF AsItWas
        <5>2. Array' = array'[a] /\ Array = array[a]
            BY <4>2 DEF Array
        <5>3. \A i \in 1..k : i \in 1..length
            BY <1>1, <3>1, <5>1
        <5> QED
            BY <1>3, <5>2, <5>3
      <4> QED
          BY <4>1, <4>2
    <3>4. Lists(array'[a], 1..k, always[m])
        BY <3>2, <3>3, SameCells DEF AsItWas
    <3>5. a = Len(array') => k <= length'
        BY <1>1, <1>3, <3>1, <3>2 DEF AsItWas
    <3>6. /\ Len(result[m]) = next[m] - 1
          /\ \A i \in 1..(next[m] - 1) : result[m][i] = array'[a][i]
      <4>1. \A i \in 1..(next[m] - 1) : i \in 1..k
          BY <3>1
      <4>2. /\ Len(result[m]) = next[m] - 1
            /\ \A i \in 1..(next[m] - 1) : result[m][i] = array[a][i]
          BY <3>2 DEF AsItWas
      <4> QED
          BY <3>3, <4>1, <4>2
    <3> QED
        BY <1>1, <3>1, <3>4, <3>5, <3>6 DEF AsItWas
  <2> QED
      BY <2>3, <2>4, <2>5
<1> QED
    BY <1>4, <1>6, <1>7, <1>9, <1>10 DEF TagInv

(* The steps of a Remove: what it disturbs it has disturbed when it begins, and  *)
(* the cell that DeleteFunc writes next is the one left over.                    *)
RemoveStep ==
    \/ \E l \in Listeners : RemoveBegins(l)
    \/ RemoveMoves \/ RemoveClears \/ RemoveEnds

LEMMA RemoveKeepsBucket ==
    ASSUME TagInv, RemoveStep
    PROVE  BucketTypes' /\ BucketExact'
<1> USE TagRouterAssumption
<1>0. /\ length \in Nat /\ length <= Len(Array) /\ Len(Array) \in Nat
      /\ to \in Nat /\ from \in Nat /\ Nobody \notin Listeners
      /\ \A i \in 1..Len(Array) : Array[i] \in Cells
  <2>1. Array \in Seq(Cells)
      BY DEF TagInv, BucketTypes, Array
  <2> QED
      BY <2>1 DEF TagInv, BucketTypes
<1>1. ASSUME NEW l \in Listeners, RemoveBegins(l)
      PROVE  BucketTypes' /\ BucketExact'
  <2>1. /\ l \in Removes /\ status[l] = "listening" /\ remover = Nobody /\ remover' = l
        /\ to' = CHOOSE i \in 1..length : Array[i] = l
        /\ from' = to' + 1
        /\ status' = [status EXCEPT ![l] = "gone"]
        /\ UNCHANGED <<array, length>>
      BY <1>1 DEF RemoveBegins, bucket
  <2>2. Lists(Array, 1..length, Listening)
      BY <2>1 DEF TagInv, BucketExact, Live
  <2>3. to' \in 1..length /\ Array[to'] = l
    <3>1. \E i \in 1..length : Array[i] = l
        BY <2>1, <2>2 DEF Lists, Listening
    <3> QED
        BY <2>1, <3>1
  <2>4. Listening' = Listening \ {l}
      BY <2>1 DEF Listening, TagInv, BucketTypes
  <2>5. Lists(Array, (1..length) \ {to'}, Listening \ {l})
      BY <2>2, <2>3, OneLess
  <2>6. Live' = (1..length) \ {to'} /\ Array' = Array /\ length > 0
      BY <1>0, <2>1, <2>3 DEF Live, LeftOver, Array
  <2>7. BucketExact'
      BY <1>0, <2>1, <2>3, <2>4, <2>5, <2>6 DEF BucketExact, TagInv, BucketTypes
  <2>8. BucketTypes'
      BY <1>0, <2>1, <2>3, <2>6 DEF TagInv, BucketTypes
  <2> QED
      BY <2>7, <2>8
<1>2. CASE RemoveMoves
  <2>1. /\ remover # Nobody /\ from <= length /\ Cell(to, Array[from])
        /\ from' = from + 1 /\ to' = to + 1 /\ UNCHANGED <<length, status, remover>>
      BY <1>2 DEF RemoveMoves
  <2>2. /\ to \in 1..length /\ from = to + 1 /\ status[remover] = "gone"
        /\ Live = (1..length) \ {to} /\ Lists(Array, Live, Listening)
        /\ to < length
      BY <1>0, <2>1 DEF TagInv, BucketExact, Live, LeftOver
  <2>3. to \in 1..Len(Array) /\ Array[from] \in Cells
      BY <1>0, <2>2
  <2>4. /\ array' \in Seq(Seq(Cells)) /\ array' # <<>>
        /\ Len(Array') = Len(Array)
        /\ Array'[to] = Array[from]
        /\ \A k \in 1..Len(Array) : k # to => Array'[k] = Array[k]
      BY <2>1, <2>3, CellWrites DEF TagInv
  <2>5. Lists(Array', (Live \ {from}) \cup {to}, Listening)
    <3>1. from \in Live /\ to \notin Live
        BY <1>0, <2>1, <2>2
    <3>2. \A i \in Live \ {from} : Array'[i] = Array[i]
        BY <1>0, <2>2, <2>4
    <3> QED
        BY <2>2, <2>4, <3>1, <3>2, OneMoved
  <2>6. Live' = (Live \ {from}) \cup {to} /\ Listening' = Listening
      BY <1>0, <2>1, <2>2 DEF Live, LeftOver, Listening
  <2>7. BucketExact'
      BY <1>0, <2>1, <2>2, <2>5, <2>6 DEF BucketExact
  <2>8. BucketTypes'
      BY <1>0, <2>1, <2>4 DEF TagInv, BucketTypes
  <2> QED
      BY <2>7, <2>8
<1>3. CASE RemoveClears
  <2>1. /\ remover # Nobody /\ from > length /\ to <= length /\ Cell(to, Nil)
        /\ from' = from /\ to' = to + 1 /\ UNCHANGED <<length, status, remover>>
      BY <1>3 DEF RemoveClears
  <2>2. /\ to = length /\ from = length + 1 /\ status[remover] = "gone" /\ length > 0
        /\ Live = (1..length) \ {to} /\ Lists(Array, Live, Listening)
      BY <1>0, <2>1 DEF TagInv, BucketExact, Live, LeftOver
  <2>3. to \in 1..Len(Array) /\ Nil \in Cells
      BY <1>0, <2>2 DEF Cells
  <2>4. /\ array' \in Seq(Seq(Cells)) /\ array' # <<>>
        /\ Len(Array') = Len(Array)
        /\ \A k \in 1..Len(Array) : k # to => Array'[k] = Array[k]
      BY <2>1, <2>3, CellWrites DEF TagInv
  <2>5. Lists(Array', Live, Listening)
    <3>1. \A i \in Live : Array'[i] = Array[i]
        BY <1>0, <2>2, <2>4
    <3> QED
        BY <2>2, <3>1, SameCells
  <2>6. Live' = Live /\ Listening' = Listening
      BY <1>0, <2>1, <2>2 DEF Live, LeftOver, Listening
  <2>7. BucketExact'
      BY <1>0, <2>1, <2>2, <2>5, <2>6 DEF BucketExact
  <2>8. BucketTypes'
      BY <1>0, <2>1, <2>4 DEF TagInv, BucketTypes
  <2> QED
      BY <2>7, <2>8
<1>4. CASE RemoveEnds
  <2>1. /\ remover # Nobody /\ to > length /\ length' = length - 1
        /\ remover' = Nobody /\ from' = 0 /\ to' = 0 /\ UNCHANGED <<array, status>>
      BY <1>4 DEF RemoveEnds
  <2>2. length > 0 /\ Live = (1..length) \ {length} /\ Lists(Array, Live, Listening)
      BY <1>0, <2>1 DEF TagInv, BucketExact, Live, LeftOver
  <2>3. Live' = Live /\ Listening' = Listening /\ Array' = Array
      BY <1>0, <2>1, <2>2 DEF Live, Listening, Array
  <2>4. BucketExact'
      BY <2>1, <2>2, <2>3 DEF BucketExact
  <2>5. BucketTypes'
      BY <1>0, <2>1, <2>2, <2>3 DEF TagInv, BucketTypes
  <2> QED
      BY <2>4, <2>5
<1> QED
    BY <1>1, <1>2, <1>3, <1>4 DEF RemoveStep

LEMMA RemoveKeepsTag ==
    ASSUME TagInv, RemoveStep
    PROVE  /\ TagInv'
           /\ \A m \in Matchers : Undisturbed(m)' => Undisturbed(m)
<1> USE TagRouterAssumption
<1>1. /\ UNCHANGED scans
      /\ Listening' \subseteq Listening
      /\ \A l \in Listeners : status'[l] = "new" => status[l] = "new"
      /\ \A m \in Scanning : ~Undisturbed(m)'
  <2>1. ASSUME NEW l \in Listeners, RemoveBegins(l)
        PROVE  /\ UNCHANGED scans
               /\ Listening' \subseteq Listening /\ l \in Listening /\ l \notin Listening'
               /\ \A k \in Listeners : status'[k] = "new" => status[k] = "new"
      BY <2>1 DEF RemoveBegins, Listening, TagInv, BucketTypes
  <2>2. ASSUME NEW l \in Listeners, RemoveBegins(l), NEW m \in Scanning
        PROVE  ~Undisturbed(m)'
    <3>1. m \in Matchers /\ l \in ever[m]
        BY <2>1, <2>2 DEF TagInv, Scans, Scanning
    <3>2. ever'[m] = ever[m]
        BY <2>1, <2>2 DEF scans
    <3> QED
        BY <2>1, <2>2, <3>1, <3>2 DEF Undisturbed
  <2>3. CASE RemoveMoves \/ RemoveClears \/ RemoveEnds
    <3>1. remover # Nobody /\ UNCHANGED <<status, scans>>
        BY <2>3 DEF RemoveMoves, RemoveClears, RemoveEnds
    <3>2. Listening' = Listening
        BY <3>1 DEF Listening
    <3>3. \A m \in Scanning : ~Undisturbed(m)
        BY <3>1 DEF TagInv, Scans, AsItWas, Scanning
    <3>4. \A m : Undisturbed(m)' => Undisturbed(m)
        BY <3>1, <3>2 DEF Undisturbed, scans
    <3> QED
        BY <3>1, <3>2, <3>3, <3>4
  <2> QED
      BY <2>1, <2>2, <2>3 DEF RemoveStep
<1>2. BucketTypes' /\ BucketExact'
    BY RemoveKeepsBucket
<1>3. /\ Len(array') = Len(array)
      /\ \A k \in 1..Len(array) : Len(array'[k]) = Len(array[k])
  <2>1. Len(Array) \in Nat /\ \A i \in 1..Len(Array) : Array[i] \in Cells
    <3>1. Array \in Seq(Cells)
        BY DEF TagInv, BucketTypes, Array
    <3> QED
        BY <3>1
  <2>2. CASE RemoveMoves
    <3>1. /\ to \in 1..Len(Array) /\ Array[from] \in Cells
          /\ Cell(to, Array[from])
        BY <2>1, <2>2 DEF RemoveMoves, TagInv, BucketTypes, BucketExact
    <3> QED
        BY <3>1, CellWrites DEF TagInv
  <2>3. CASE RemoveClears
    <3>1. to \in 1..Len(Array) /\ Nil \in Cells /\ Cell(to, Nil)
        BY <2>1, <2>3 DEF RemoveClears, TagInv, BucketTypes, BucketExact, Cells
    <3> QED
        BY <3>1, CellWrites DEF TagInv
  <2> QED
      BY <2>2, <2>3 DEF RemoveStep, RemoveBegins, RemoveEnds, bucket
<1>4. ScanTypes'
    BY <1>1, <1>3 DEF TagInv, ScanTypes, scans
<1>5. \A m \in Matchers : Undisturbed(m)' => Undisturbed(m)
    BY <1>1 DEF Undisturbed, scans
<1>6. Scans'
  <2> SUFFICES ASSUME NEW m \in Matchers
               PROVE  /\ \A k \in ever'[m] : status'[k] # "new"
                      /\ always'[m] \subseteq ever'[m]
                      /\ m \in Scanning' => Listening' \subseteq ever'[m]
                      /\ m \in Scanning' /\ Undisturbed(m)' => AsItWas(m)'
      BY DEF Scans
  <2>1. /\ ever'[m] = ever[m] /\ always'[m] = always[m] /\ ever[m] \subseteq Listeners
        /\ m \in Scanning' <=> m \in Scanning
      BY <1>1 DEF scans, Scanning, TagInv, ScanTypes
  <2>2. \A k \in ever'[m] : status'[k] # "new"
      BY <1>1, <2>1 DEF TagInv, Scans
  <2> QED
      BY <1>1, <2>1, <2>2 DEF TagInv, Scans
<1> QED
    BY <1>2, <1>4, <1>5, <1>6 DEF TagInv

(* A Match begins with the bucket, and reads it cell by cell.                    *)
LEMMA BeginKeepsTag ==
    ASSUME TagInv, NEW c \in Matchers, MatchBegins(c)
    PROVE  /\ TagInv'
           /\ \A m \in Matchers \ {c} : Undisturbed(m)' => Undisturbed(m)
<1>1. /\ UNCHANGED <<array, length, status, remover, from, to>>
      /\ remover = Nobody
      /\ slice' = [slice EXCEPT ![c] = [array |-> Len(array), length |-> length]]
      /\ next' = [next EXCEPT ![c] = 1]
      /\ result' = [result EXCEPT ![c] = <<>>]
      /\ always' = [always EXCEPT ![c] = Listening]
      /\ ever' = [ever EXCEPT ![c] = Listening]
    BY DEF MatchBegins, bucket, delete
<1>2. /\ Listening' = Listening /\ Array' = Array /\ Live' = Live
      /\ Listening \subseteq Listeners
    BY <1>1 DEF Listening, Array, Live, LeftOver
<1>3. BucketTypes' /\ BucketExact'
    BY <1>1, <1>2 DEF TagInv, BucketTypes, BucketExact
<1>4. /\ Len(array) \in 1..Len(array) /\ length \in Nat
      /\ length <= Len(array[Len(array)]) /\ Len(array) \in Nat
    BY DEF TagInv, BucketTypes, Array
<1>5. ScanTypes'
    BY SMTT(20), <1>1, <1>2, <1>4 DEF TagInv, ScanTypes
<1>6. \A m \in Matchers \ {c} : Undisturbed(m)' => Undisturbed(m)
    BY <1>1, <1>2 DEF Undisturbed, TagInv, ScanTypes
<1>7. Scans'
  <2> SUFFICES ASSUME NEW m \in Matchers
               PROVE  /\ \A k \in ever'[m] : status'[k] # "new"
                      /\ always'[m] \subseteq ever'[m]
                      /\ m \in Scanning' => Listening' \subseteq ever'[m]
                      /\ m \in Scanning' /\ Undisturbed(m)' => AsItWas(m)'
      BY DEF Scans
  <2>1. CASE m # c
    <3>1. /\ slice'[m] = slice[m] /\ next'[m] = next[m] /\ result'[m] = result[m]
          /\ always'[m] = always[m] /\ ever'[m] = ever[m]
          /\ m \in Scanning' <=> m \in Scanning
        BY <1>1, <2>1 DEF TagInv, ScanTypes, Scanning
    <3>2. AsItWas(m) => AsItWas(m)'
        BY <1>1, <3>1 DEF AsItWas
    <3> QED
        BY <1>1, <1>2, <1>6, <2>1, <3>1, <3>2 DEF TagInv, Scans
  <2>2. CASE m = c
    <3>1. /\ slice'[m] = [array |-> Len(array), length |-> length]
          /\ next'[m] = 1 /\ result'[m] = <<>>
          /\ always'[m] = Listening /\ ever'[m] = Listening
        BY <1>1, <2>2 DEF TagInv, ScanTypes
    <3>2. Lists(array[Len(array)], 1..length, Listening)
        BY <1>1 DEF TagInv, BucketExact, Live, Array
    <3>3. /\ slice'[m].array = Len(array) /\ slice'[m].length = length
          /\ Len(result'[m]) = 0 /\ next'[m] - 1 = 0
        BY <3>1
    <3>4. Lists(array'[slice'[m].array], 1..slice'[m].length, always'[m])
        BY <1>1, <3>1, <3>2, <3>3
    <3>5. remover' = Nobody /\ slice'[m].length <= length'
        BY <1>1, <1>4, <3>3
    <3>6. AsItWas(m)'
        BY <3>3, <3>4, <3>5 DEF AsItWas
    <3> QED
        BY <1>1, <1>2, <3>1, <3>6 DEF Listening
  <2> QED
      BY <2>1, <2>2
<1> QED
    BY <1>3, <1>5, <1>6, <1>7 DEF TagInv

LEMMA ReadKeepsTag ==
    ASSUME TagInv, NEW c \in Matchers, MatchReads(c) \/ MatchEnds(c)
    PROVE  /\ TagInv'
           /\ \A m \in Matchers : Undisturbed(m)' <=> Undisturbed(m)
<1>1. UNCHANGED <<array, length, status, remover, from, to, slice, always, ever>>
    BY DEF MatchReads, MatchEnds, bucket, delete
<1>2. /\ Listening' = Listening /\ Array' = Array /\ Live' = Live
    BY <1>1 DEF Listening, Array, Live, LeftOver
<1>3. BucketTypes' /\ BucketExact'
    BY <1>1, <1>2 DEF TagInv, BucketTypes, BucketExact
<1>4. \A m \in Matchers : Undisturbed(m)' <=> Undisturbed(m)
    BY <1>1, <1>2 DEF Undisturbed
<1>5. CASE MatchReads(c)
  <2> DEFINE A == array[slice[c].array]
             v == A[next[c]]
  <2>1. /\ next[c] \in 1..slice[c].length
        /\ result' = [result EXCEPT ![c] = Append(@, v)]
        /\ next' = [next EXCEPT ![c] = @ + 1]
      BY <1>5 DEF MatchReads
  <2>2. v \in Cells
    <3>1. A \in Seq(Cells)
        BY DEF TagInv, BucketTypes, ScanTypes
    <3>2. next[c] \in 1..Len(A)
        BY <2>1, <3>1 DEF TagInv, ScanTypes
    <3> QED
        BY <3>1, <3>2
  <2> HIDE DEF v
  <2>3. result[c] \in Seq(Cells) /\ Append(result[c], v) \in Seq(Cells)
      BY <2>2 DEF TagInv, ScanTypes
  <2>4. ScanTypes'
      BY <1>1, <2>1, <2>3 DEF TagInv, ScanTypes
  <2>5. Scans'
    <3> SUFFICES ASSUME NEW m \in Matchers
                 PROVE  /\ \A k \in ever'[m] : status'[k] # "new"
                        /\ always'[m] \subseteq ever'[m]
                        /\ m \in Scanning' => Listening' \subseteq ever'[m]
                        /\ m \in Scanning' /\ Undisturbed(m)' => AsItWas(m)'
        BY DEF Scans
    <3>1. m \in Scanning' <=> m \in Scanning
        BY <2>1 DEF Scanning, TagInv, ScanTypes
    <3>2. ASSUME AsItWas(m) PROVE AsItWas(m)'
      <4>1. CASE m # c
          BY <1>1, <2>1, <3>2, <4>1 DEF AsItWas, TagInv, ScanTypes
      <4>2. CASE m = c
        <5>1. /\ next'[c] = next[c] + 1 /\ result'[c] = Append(result[c], v)
              /\ next[c] \in Nat
            BY <2>1 DEF TagInv, ScanTypes
        <5>2. /\ Len(result[c]) = next[c] - 1
              /\ \A i \in 1..(next[c] - 1) : result[c][i] = A[i]
            BY <3>2, <4>2 DEF AsItWas
        <5>3. /\ Len(result'[c]) = next'[c] - 1
              /\ \A i \in 1..(next'[c] - 1) : result'[c][i] = A[i]
            BY <2>3, <5>1, <5>2 DEF v
        <5> QED
            BY <1>1, <3>2, <4>2, <5>3 DEF AsItWas
      <4> QED
          BY <4>1, <4>2
    <3> QED
        BY <1>1, <1>2, <1>4, <3>1, <3>2 DEF TagInv, Scans
  <2> QED
      BY <1>3, <1>4, <2>4, <2>5 DEF TagInv
<1>6. CASE MatchEnds(c)
  <2>1. result' = result /\ next' = [next EXCEPT ![c] = 0]
      BY <1>6 DEF MatchEnds
  <2>2. ScanTypes'
      BY <1>1, <2>1 DEF TagInv, ScanTypes
  <2>3. Scans'
    <3> SUFFICES ASSUME NEW m \in Matchers
                 PROVE  /\ \A k \in ever'[m] : status'[k] # "new"
                        /\ always'[m] \subseteq ever'[m]
                        /\ m \in Scanning' => Listening' \subseteq ever'[m]
                        /\ m \in Scanning' /\ Undisturbed(m)' => AsItWas(m)'
        BY DEF Scans
    <3>1. m \in Scanning' => m \in Scanning /\ next'[m] = next[m]
        BY <2>1 DEF Scanning, TagInv, ScanTypes
    <3>2. ASSUME AsItWas(m), m \in Scanning' PROVE AsItWas(m)'
        BY <1>1, <2>1, <3>1, <3>2 DEF AsItWas
    <3> QED
        BY <1>1, <1>2, <1>4, <3>1, <3>2 DEF TagInv, Scans
  <2> QED
      BY <1>3, <1>4, <2>2, <2>3 DEF TagInv
<1> QED
    BY <1>5, <1>6

LEMMA InitTag == TagInit => TagInv
<1> SUFFICES ASSUME TagInit PROVE TagInv
    OBVIOUS
<1> USE TagRouterAssumption DEF TagInit
<1>1. /\ array \in Seq(Seq(Cells)) /\ Len(array) = 1 /\ array[1] = <<Nil>>
      /\ Len(array[1]) = 1
    BY DEF Cells
<1>2. BucketTypes
    BY <1>1 DEF BucketTypes, Array
<1>3. ScanTypes
    BY <1>1 DEF ScanTypes
<1>4. Listening = {} /\ Live = {}
    BY DEF Listening, Live
<1>5. BucketExact
    BY <1>4 DEF BucketExact, Lists
<1>6. Scans
    BY DEF Scans, Scanning
<1> QED
    BY <1>2, <1>3, <1>5, <1>6 DEF TagInv

(* A Match that ends undisturbed returns the listeners of its time, each once.   *)
LEMMA InvIsRegular == TagInv => MatchIsRegular
<1> SUFFICES ASSUME TagInv, NEW m \in Matchers,
                    next[m] > slice[m].length, ever[m] \subseteq Listening
             PROVE  /\ always[m] \subseteq ToSet(result[m])
                    /\ ToSet(result[m]) \subseteq ever[m]
                    /\ IsInjective(result[m])
    BY DEF MatchIsRegular
<1>1. /\ next[m] \in Nat /\ slice[m].length \in Nat /\ next[m] <= slice[m].length + 1
      /\ result[m] \in Seq(Cells)
    BY DEF TagInv, ScanTypes
<1>2. m \in Scanning /\ next[m] - 1 = slice[m].length
    BY <1>1 DEF Scanning
<1>3. AsItWas(m) /\ always[m] \subseteq ever[m]
    BY <1>2 DEF TagInv, Scans, Undisturbed
<1> DEFINE A == array[slice[m].array]
<1>4. /\ Lists(A, 1..slice[m].length, always[m])
      /\ DOMAIN result[m] = 1..slice[m].length
      /\ \A i \in 1..slice[m].length : result[m][i] = A[i]
    BY <1>1, <1>2, <1>3 DEF AsItWas
<1> HIDE DEF A
<1>5. always[m] \subseteq ToSet(result[m])
    BY <1>4 DEF Lists, ToSet
<1>6. ToSet(result[m]) \subseteq always[m]
    BY <1>4 DEF Lists, ToSet
<1>7. IsInjective(result[m])
    BY <1>4 DEF Lists, IsInjective
<1> QED
    BY <1>3, <1>5, <1>6, <1>7

-------------------------------------------------------------------------------
(* The calls.                                                                    *)

CallTypes ==
    /\ at \in [Matchers -> {"idle", "matching", "dispatching", "called", "panicked"}]
    /\ targets \in [Matchers -> Seq(Listeners)]
    /\ failed \subseteq Matchers
    /\ kept \subseteq Matchers \X Others
    /\ first \in [Matchers -> Listeners \cup {NoReply}]

(* A call whose Match was not disturbed has run, or will run, every listener of  *)
(* the provider that was there all the time, unless somebody has replied.        *)
Runs(c) ==
    \/ first[c] # NoReply
    \/ always[c] \ Others \subseteq ToSet(targets[c])

CallsMatch ==
    \A c \in Matchers :
        /\ c \in Scanning <=> at[c] \in {"matching", "panicked"}
        /\ at[c] = "matching" => \A i \in DOMAIN result[c] : result[c][i] # Nil
        /\ at[c] = "panicked" => ~Undisturbed(c)
        /\ at[c] = "called" => targets[c] = <<>>
        /\ at[c] \in {"dispatching", "called"} /\ c \notin failed /\ Undisturbed(c) => Runs(c)

CallInv == TagInv /\ CallTypes /\ CallsMatch

LEMMA InitCalls == BusInit => CallInv
<1> SUFFICES ASSUME BusInit PROVE CallInv
    OBVIOUS
<1>1. TagInv
    BY InitTag DEF BusInit
<1>2. CallTypes
    BY DEF BusInit, CallTypes
<1>3. CallsMatch
    BY DEF BusInit, TagInit, CallsMatch, Scanning
<1> QED
    BY <1>1, <1>2, <1>3 DEF CallInv

(* A listener that comes or goes leaves the calls alone.                         *)
LEMMA ListenersKeepCalls ==
    ASSUME CallInv, UNCHANGED <<call, future>>,
           \/ UNCHANGED tagVars \/ RemoveStep \/ \E l \in Listeners : Add(l)
    PROVE  CallInv'
<1>1. /\ TagInv'
      /\ \A m \in Matchers : Undisturbed(m)' => Undisturbed(m)
  <2>1. CASE UNCHANGED tagVars
    <3>1. UNCHANGED <<array, length, status, remover, from, to, slice, next, result, always, ever>>
        BY <2>1 DEF tagVars, bucket, delete, scans
    <3>2. UNCHANGED <<Array, Listening, Live, Scanning>>
        BY <3>1 DEF Array, Listening, Live, LeftOver, Scanning
    <3>3. \A m : /\ Undisturbed(m)' <=> Undisturbed(m)
                 /\ AsItWas(m)' <=> AsItWas(m)
        BY <3>1, <3>2 DEF Undisturbed, AsItWas
    <3>4. TagInv'
        BY <3>1, <3>2, <3>3 DEF CallInv, TagInv, BucketTypes, ScanTypes, BucketExact, Scans
    <3> QED
        BY <3>3, <3>4
  <2> QED
      BY <2>1, AddKeepsTag, RemoveKeepsTag DEF CallInv
<1>2. UNCHANGED <<next, result, always, at, targets, failed, kept, first>>
    BY DEF tagVars, scans, call, future, RemoveStep, RemoveBegins, RemoveMoves, RemoveClears,
           RemoveEnds, Add
<1>3. CallTypes'
    BY <1>2 DEF CallInv, CallTypes
<1>4. CallsMatch'
    BY <1>1, <1>2 DEF CallInv, CallsMatch, Scanning, Runs
<1> QED
    BY <1>1, <1>3, <1>4 DEF CallInv

(* What a call does with the bucket is a Match.                                  *)
LEMMA MatchKeepsCalls ==
    ASSUME CallInv, NEW c \in Matchers, CallBegins(c) \/ CallMatches(c) \/ CallDispatches(c)
    PROVE  CallInv'
<1> USE TagRouterAssumption
<1>1. /\ TagInv'
      /\ \A m \in Matchers \ {c} : Undisturbed(m)' => Undisturbed(m)
      /\ UNCHANGED <<failed, kept, first>>
    BY BeginKeepsTag, ReadKeepsTag DEF CallInv, CallBegins, CallMatches, CallDispatches, future
<1>2. ASSUME NEW d \in Matchers \ {c}
      PROVE  /\ at'[d] = at[d] /\ targets'[d] = targets[d] /\ result'[d] = result[d]
             /\ next'[d] = next[d] /\ always'[d] = always[d]
    BY DEF CallBegins, CallMatches, CallDispatches, MatchBegins, MatchReads, MatchEnds,
           CallInv, CallTypes, TagInv, ScanTypes
<1>3. ASSUME NEW d \in Matchers, d # c
      PROVE  /\ d \in Scanning' <=> at'[d] \in {"matching", "panicked"}
             /\ at'[d] = "matching" => \A i \in DOMAIN result'[d] : result'[d][i] # Nil
             /\ at'[d] = "panicked" => ~Undisturbed(d)'
             /\ at'[d] = "called" => targets'[d] = <<>>
             /\ at'[d] \in {"dispatching", "called"} /\ d \notin failed' /\ Undisturbed(d)'
                   => Runs(d)'
  <2>1. (d \in Scanning' <=> d \in Scanning) /\ (Runs(d)' <=> Runs(d))
      BY <1>1, <1>2, <1>3 DEF Scanning, Runs
  <2> QED
      BY <1>1, <1>2, <1>3, <2>1 DEF CallInv, CallsMatch
<1>4. CASE CallBegins(c)
  <2>1. /\ at' = [at EXCEPT ![c] = "matching"] /\ targets' = targets
        /\ next'[c] = 1 /\ result'[c] = <<>>
      BY <1>4 DEF CallBegins, MatchBegins, CallInv, TagInv, ScanTypes
  <2>2. CallTypes'
      BY <1>1, <2>1 DEF CallInv, CallTypes
  <2>3. CallsMatch'
    <3> SUFFICES ASSUME NEW d \in Matchers
                 PROVE  /\ d \in Scanning' <=> at'[d] \in {"matching", "panicked"}
                        /\ at'[d] = "matching" => \A i \in DOMAIN result'[d] : result'[d][i] # Nil
                        /\ at'[d] = "panicked" => ~Undisturbed(d)'
                        /\ at'[d] = "called" => targets'[d] = <<>>
                        /\ at'[d] \in {"dispatching", "called"} /\ d \notin failed' /\ Undisturbed(d)'
                              => Runs(d)'
        BY DEF CallsMatch
    <3>1. CASE d # c
        BY <1>3, <3>1
    <3>2. CASE d = c
      <4>1. at'[c] = "matching" /\ c \in Scanning' /\ DOMAIN result'[c] = {}
          BY <2>1 DEF CallInv, CallTypes, Scanning
      <4> QED
          BY <3>2, <4>1
    <3> QED
        BY <3>1, <3>2
  <2> QED
      BY <1>1, <2>2, <2>3 DEF CallInv
<1>5. CASE CallMatches(c)
  <2> DEFINE v == array[slice[c].array][next[c]]
  <2>1. /\ at[c] = "matching" /\ targets' = targets
        /\ next[c] \in 1..slice[c].length /\ next'[c] = next[c] + 1
        /\ result[c] \in Seq(Cells) /\ result'[c] = Append(result[c], v)
        /\ at' = IF Last(result'[c]) = Nil THEN [at EXCEPT ![c] = "panicked"] ELSE at
        /\ Undisturbed(c)' <=> Undisturbed(c)
      BY <1>5, ReadKeepsTag DEF CallMatches, MatchReads, CallInv, TagInv, ScanTypes
  <2>2. v \in Cells
      BY <2>1 DEF CallInv, TagInv, BucketTypes, ScanTypes
  <2>3. Undisturbed(c) => v # Nil
    <3> SUFFICES ASSUME Undisturbed(c) PROVE v # Nil
        OBVIOUS
    <3>1. AsItWas(c) /\ always[c] \subseteq Listeners
        BY <2>1 DEF CallInv, CallsMatch, TagInv, Scans, ScanTypes
    <3>2. v \in always[c]
        BY <2>1, <3>1 DEF AsItWas, Lists
    <3> QED
        BY <3>1, <3>2
  <2> HIDE DEF v
  <2>4. Last(result'[c]) = v
      BY <2>1, <2>2 DEF Last
  <2>5. v # Nil => \A i \in DOMAIN result'[c] : result'[c][i] # Nil
    <3>1. /\ DOMAIN result'[c] = 1..(Len(result[c]) + 1)
          /\ \A i \in 1..Len(result[c]) : i \in DOMAIN result[c] /\ result'[c][i] = result[c][i]
          /\ result'[c][Len(result[c]) + 1] = v
        BY <2>1, <2>2
    <3>2. \A i \in DOMAIN result[c] : result[c][i] # Nil
        BY <2>1 DEF CallInv, CallsMatch
    <3> QED
        BY <2>1, <3>1, <3>2
  <2>6. CallTypes'
      BY <1>1, <2>1 DEF CallInv, CallTypes
  <2>7. CallsMatch'
    <3> SUFFICES ASSUME NEW d \in Matchers
                 PROVE  /\ d \in Scanning' <=> at'[d] \in {"matching", "panicked"}
                        /\ at'[d] = "matching" => \A i \in DOMAIN result'[d] : result'[d][i] # Nil
                        /\ at'[d] = "panicked" => ~Undisturbed(d)'
                        /\ at'[d] = "called" => targets'[d] = <<>>
                        /\ at'[d] \in {"dispatching", "called"} /\ d \notin failed' /\ Undisturbed(d)'
                              => Runs(d)'
        BY DEF CallsMatch
    <3>1. CASE d # c
        BY <1>3, <3>1
    <3>2. CASE d = c
      <4>1. at'[c] = IF v = Nil THEN "panicked" ELSE "matching"
          BY <2>1, <2>4 DEF CallInv, CallTypes
      <4>2. c \in Scanning'
          BY <2>1 DEF Scanning
      <4>3. CASE v = Nil
        <5>1. at'[c] = "panicked"
            BY <4>1, <4>3
        <5>2. ~Undisturbed(c)'
            BY <2>1, <2>3, <4>3
        <5> QED
            BY <3>2, <4>2, <5>1, <5>2
      <4>4. CASE v # Nil
        <5>1. at'[c] = "matching"
            BY <4>1, <4>4
        <5> QED
            BY <2>5, <3>2, <4>2, <4>4, <5>1
      <4> QED
          BY <4>3, <4>4
    <3> QED
        BY <3>1, <3>2
  <2> QED
      BY <1>1, <2>6, <2>7 DEF CallInv
<1>6. CASE CallDispatches(c)
  <2>1. /\ at[c] = "matching" /\ at' = [at EXCEPT ![c] = "dispatching"]
        /\ targets' = [targets EXCEPT ![c] = result[c]]
        /\ next[c] > slice[c].length /\ next'[c] = 0 /\ result' = result /\ always' = always
        /\ Undisturbed(c)' <=> Undisturbed(c)
      BY <1>6, ReadKeepsTag DEF CallDispatches, MatchEnds, CallInv, TagInv, ScanTypes
  <2>2. result[c] \in Seq(Listeners)
    <3>1. /\ result[c] \in Seq(Cells)
          /\ \A i \in DOMAIN result[c] : result[c][i] # Nil
        BY <2>1 DEF CallInv, CallsMatch, TagInv, ScanTypes
    <3>2. \A i \in 1..Len(result[c]) : result[c][i] \in Listeners
        BY <3>1 DEF Cells
    <3> QED
        BY <3>1, <3>2
  <2>3. CallTypes'
      BY <1>1, <2>1, <2>2 DEF CallInv, CallTypes
  <2>4. Undisturbed(c) => always[c] \subseteq ToSet(result[c])
      BY <2>1, InvIsRegular DEF CallInv, MatchIsRegular, Undisturbed
  <2>5. CallsMatch'
    <3> SUFFICES ASSUME NEW d \in Matchers
                 PROVE  /\ d \in Scanning' <=> at'[d] \in {"matching", "panicked"}
                        /\ at'[d] = "matching" => \A i \in DOMAIN result'[d] : result'[d][i] # Nil
                        /\ at'[d] = "panicked" => ~Undisturbed(d)'
                        /\ at'[d] = "called" => targets'[d] = <<>>
                        /\ at'[d] \in {"dispatching", "called"} /\ d \notin failed' /\ Undisturbed(d)'
                              => Runs(d)'
        BY DEF CallsMatch
    <3>1. CASE d # c
        BY <1>3, <3>1
    <3>2. CASE d = c
      <4>1. /\ at'[c] = "dispatching" /\ targets'[c] = result[c] /\ c \notin Scanning'
          BY <2>1 DEF CallInv, CallTypes, Scanning
      <4> QED
          BY <2>1, <2>4, <3>2, <4>1 DEF Runs
    <3> QED
        BY <3>1, <3>2
  <2> QED
      BY <1>1, <2>3, <2>5 DEF CallInv
<1> QED
    BY <1>4, <1>5, <1>6

(* Whoever is run and does not reply is not one of the provider's, or ends the   *)
(* distribution.                                                                 *)
LEMMA DispatchKeepsCalls ==
    ASSUME CallInv, NEW c \in Matchers,
           \/ CallReturns(c)
           \/ \E l \in Listeners : \/ HandlerReplies(c, l) \/ ListenerKeepsSink(c, l)
                                   \/ ListenerFails(c, l) \/ LateReply(c, l)
           \/ \E h \in Holders : StartGet(c, h) \/ GetReply(c, h) \/ GetCancelled(c, h)
    PROVE  CallInv'
<1> USE BusAssumption
<1>1. UNCHANGED tagVars
    BY DEF CallReturns, HandlerReplies, ListenerKeepsSink, ListenerFails, LateReply, Go,
           StartGet, GetReply, GetCancelled
<1>2. /\ UNCHANGED <<array, length, status, remover, from, to, slice, next, result, always, ever>>
      /\ UNCHANGED <<Array, Listening, Live, Scanning>>
    BY <1>1 DEF tagVars, bucket, delete, scans, Array, Listening, Live, LeftOver, Scanning
<1>3. \A m : (Undisturbed(m)' <=> Undisturbed(m)) /\ (AsItWas(m)' <=> AsItWas(m))
    BY <1>2 DEF Undisturbed, AsItWas
<1>4. TagInv'
    BY <1>2, <1>3 DEF CallInv, TagInv, BucketTypes, ScanTypes, BucketExact, Scans
<1>5. ASSUME UNCHANGED <<at, targets, failed>>, CallTypes',
             \A d \in Matchers : first[d] # NoReply => first'[d] # NoReply
      PROVE  CallInv'
    BY <1>2, <1>3, <1>4, <1>5 DEF CallInv, CallsMatch, Runs
<1>6. CASE CallReturns(c)
  <2>1. /\ at[c] = "dispatching" /\ targets[c] = <<>> /\ at' = [at EXCEPT ![c] = "called"]
        /\ UNCHANGED <<targets, failed, kept, first>>
      BY <1>6 DEF CallReturns, future
  <2>2. CallTypes'
      BY <2>1 DEF CallInv, CallTypes
  <2>3. CallsMatch'
      BY <1>2, <1>3, <2>1 DEF CallInv, CallTypes, CallsMatch, Runs
  <2> QED
      BY <1>4, <2>2, <2>3 DEF CallInv
<1>7. ASSUME NEW l \in Listeners, LateReply(c, l) PROVE CallInv'
  <2>1. /\ kept' \subseteq kept /\ UNCHANGED <<at, targets, failed>>
        /\ first' = IF first[c] = NoReply THEN [first EXCEPT ![c] = l] ELSE first
      BY <1>7 DEF LateReply, Settle
  <2>2. CallTypes'
      BY <2>1 DEF CallInv, CallTypes
  <2>3. \A d \in Matchers : first[d] # NoReply => first'[d] # NoReply
      BY <2>1 DEF CallInv, CallTypes
  <2> QED
      BY <1>5, <2>1, <2>2, <2>3
<1>8. CASE \E h \in Holders : StartGet(c, h) \/ GetReply(c, h) \/ GetCancelled(c, h)
  <2>1. UNCHANGED <<at, targets, failed, kept, first>>
      BY <1>8 DEF StartGet, GetReply, GetCancelled, call
  <2>2. CallTypes'
      BY <2>1 DEF CallInv, CallTypes
  <2> QED
      BY <1>5, <2>1, <2>2
<1>9. ASSUME NEW l \in Listeners,
             HandlerReplies(c, l) \/ ListenerKeepsSink(c, l) \/ ListenerFails(c, l)
      PROVE  CallInv'
  <2>1. /\ at[c] = "dispatching" /\ targets[c] # <<>> /\ l = Head(targets[c]) /\ at' = at
        /\ targets[c] \in Seq(Listeners)
        /\ \A d \in Matchers : first[d] # NoReply => first'[d] # NoReply
        /\ first' \in [Matchers -> Listeners \cup {NoReply}]
    <3>1. /\ at[c] = "dispatching" /\ targets[c] # <<>> /\ l = Head(targets[c]) /\ at' = at
          /\ first' = first \/ first' = IF first[c] = NoReply THEN [first EXCEPT ![c] = l] ELSE first
        BY <1>9 DEF HandlerReplies, ListenerKeepsSink, ListenerFails, Run, Go, Settle, future
    <3> QED
        BY <3>1 DEF CallInv, CallTypes
  <2>2. /\ Tail(targets[c]) \in Seq(Listeners)
        /\ \A x \in ToSet(targets[c]) : x = l \/ x \in ToSet(Tail(targets[c]))
    <3> DEFINE s == targets[c]
    <3>1. /\ Tail(s) \in Seq(Listeners) /\ Len(s) \in Nat /\ Len(Tail(s)) = Len(s) - 1
          /\ \A i \in 1..(Len(s) - 1) : Tail(s)[i] = s[i + 1]
          /\ s[1] = l /\ DOMAIN s = 1..Len(s) /\ DOMAIN Tail(s) = 1..(Len(s) - 1)
        BY <2>1
    <3> HIDE DEF s
    <3>2. \A i \in DOMAIN s : s[i] = l \/ \E j \in DOMAIN Tail(s) : s[i] = Tail(s)[j]
      <4> SUFFICES ASSUME NEW i \in DOMAIN s, i # 1 PROVE \E j \in DOMAIN Tail(s) : s[i] = Tail(s)[j]
          BY <3>1
      <4>1. i - 1 \in 1..(Len(s) - 1) /\ (i - 1) + 1 = i
          BY <3>1
      <4> QED
          BY <3>1, <4>1
    <3> QED
        BY <3>1, <3>2 DEF s, ToSet
  <2>3. \E ls \in {<<>>, Tail(targets[c])} :
           /\ targets' = [targets EXCEPT ![c] = ls]
           /\ failed \subseteq failed' /\ failed' \subseteq failed \cup {c}
           /\ kept' \subseteq Matchers \X Others
           /\ c \in failed' \/ (ls = Tail(targets[c]) /\ (l \in Others \/ first'[c] # NoReply))
    <3>1. CASE HandlerReplies(c, l)
      <4>1. first'[c] # NoReply
          BY <3>1 DEF HandlerReplies, Settle, CallInv, CallTypes
      <4> QED
          BY <3>1, <4>1 DEF HandlerReplies, Go, CallInv, CallTypes
    <3>2. CASE ListenerKeepsSink(c, l)
        BY <3>2 DEF ListenerKeepsSink, Go, CallInv, CallTypes
    <3>3. CASE ListenerFails(c, l)
        BY <3>3 DEF ListenerFails, Go, CallInv, CallTypes
    <3> QED
        BY <1>9, <3>1, <3>2, <3>3
  <2>4. CallTypes'
    <3>1. PICK ls \in {<<>>, Tail(targets[c])} : targets' = [targets EXCEPT ![c] = ls]
        BY <2>3
    <3>2. ls \in Seq(Listeners)
      <4>1. <<>> \in Seq(Listeners)
          OBVIOUS
      <4>2. ls = <<>> \/ ls = Tail(targets[c])
          BY <3>1
      <4> QED
          BY <2>2, <4>1, <4>2, Zenon
    <3>3. targets' \in [Matchers -> Seq(Listeners)]
        BY <3>1, <3>2 DEF CallInv, CallTypes
    <3> QED
        BY <2>1, <2>3, <3>3 DEF CallInv, CallTypes
  <2>5. CallsMatch'
    <3> SUFFICES ASSUME NEW d \in Matchers
                 PROVE  /\ d \in Scanning' <=> at'[d] \in {"matching", "panicked"}
                        /\ at'[d] = "matching" => \A i \in DOMAIN result'[d] : result'[d][i] # Nil
                        /\ at'[d] = "panicked" => ~Undisturbed(d)'
                        /\ at'[d] = "called" => targets'[d] = <<>>
                        /\ at'[d] \in {"dispatching", "called"} /\ d \notin failed' /\ Undisturbed(d)'
                              => Runs(d)'
        BY DEF CallsMatch
    <3>1. CASE d # c
      <4>1. targets'[d] = targets[d] /\ (d \in failed' <=> d \in failed)
          BY <2>3, <3>1 DEF CallInv, CallTypes
      <4> QED
          BY <1>2, <1>3, <2>1, <3>1, <4>1 DEF CallInv, CallsMatch, Runs
    <3>2. CASE d = c
      <4>1. ASSUME c \notin failed', Undisturbed(c)' PROVE Runs(c)'
        <5>1. /\ targets'[c] = Tail(targets[c]) /\ c \notin failed /\ Undisturbed(c)
              /\ l \in Others \/ first'[c] # NoReply
            BY <1>3, <2>3, <4>1 DEF CallInv, CallTypes
        <5>2. Runs(c)
            BY <2>1, <5>1 DEF CallInv, CallsMatch
        <5> QED
            BY <1>2, <2>1, <2>2, <5>1, <5>2 DEF Runs
      <4> QED
          BY <1>2, <1>3, <2>1, <3>2, <4>1 DEF CallInv, CallsMatch
    <3> QED
        BY <3>1, <3>2
  <2> QED
      BY <1>4, <2>4, <2>5 DEF CallInv
<1> QED
    BY <1>6, <1>7, <1>8, <1>9

LEMMA NextCallInv ==
    ASSUME CallInv, [BusNext]_busVars
    PROVE  CallInv'
<1>1. CASE UNCHANGED busVars
  <2>1. UNCHANGED <<call, future>> /\ UNCHANGED tagVars
      BY <1>1 DEF busVars
  <2> QED
      BY <2>1, ListenersKeepCalls
<1>2. CASE Provider
  <2>1. /\ UNCHANGED <<call, future>>
        /\ UNCHANGED tagVars \/ RemoveStep \/ \E l \in Listeners : Add(l)
    <3>1. ASSUME NEW r \in Registrars, RegisterOnBus(r)
          PROVE  /\ UNCHANGED <<call, future>>
                 /\ UNCHANGED tagVars \/ \E l \in Listeners : Add(l)
        BY <3>1 DEF RegisterOnBus
    <3>2. ASSUME NEW u \in Unregistrars, UnlistenBegins(u)
          PROVE  UNCHANGED <<call, future>> /\ RemoveStep
        BY <3>2, TagRouterAssumption DEF UnlistenBegins, RemoveStep, RemoveBegins
    <3>3. ASSUME NEW u \in Unregistrars, UnlistenEnds(u)
          PROVE  UNCHANGED <<call, future>> /\ RemoveStep
        BY <3>3 DEF UnlistenEnds, RemoveStep
    <3> QED
        BY <1>2, <3>1, <3>2, <3>3 DEF Provider, UnlistenElsewhere
  <2> QED
      BY <2>1, ListenersKeepCalls
<1>3. CASE Bucket
  <2>1. /\ UNCHANGED <<call, future>>
        /\ RemoveStep \/ \E l \in Listeners : Add(l)
      BY <1>3, BusAssumption DEF Bucket, RemoveStep
  <2> QED
      BY <2>1, ListenersKeepCalls
<1>4. CASE \E c \in Matchers : CallStep(c)
    BY <1>4, MatchKeepsCalls, DispatchKeepsCalls DEF CallStep
<1> QED
    BY <1>1, <1>2, <1>3, <1>4 DEF BusNext

(* Whatever Add and Remove do to the array a Match reads without the lock: one   *)
(* that no Remove disturbs returns every listener that was there all the time,   *)
(* once, and none that was not there at any time; for any number of listeners,   *)
(* calls and array copies.                                                       *)
THEOREM MatchRegular == BusSpec => []MatchIsRegular
<1>1. CallInv => MatchIsRegular
    BY InvIsRegular DEF CallInv
<1> QED
    BY <1>1, InitCalls, NextCallInv, PTL DEF BusSpec

(* A call of a registered provider that no removal disturbs, and whose           *)
(* distribution no error ends, has its reply when CallOn returns.                *)
THEOREM CallAnswered == BusSpec => []CallIsAnswered
<1>1. CallInv => CallIsAnswered
  <2> SUFFICES ASSUME CallInv, NEW c \in Matchers, at[c] = "called", c \notin failed,
                      ever[c] \subseteq Listening, always[c] \ Others # {}
               PROVE  first[c] # NoReply
      BY DEF CallIsAnswered
  <2>1. Runs(c) /\ targets[c] = <<>>
      BY DEF CallInv, CallsMatch, Undisturbed
  <2>2. ToSet(targets[c]) = {}
      BY <2>1 DEF ToSet
  <2> QED
      BY <2>1, <2>2 DEF Runs
<1> QED
    BY <1>1, InitCalls, NextCallInv, PTL DEF BusSpec

(* The one way to the nil dereference in Match is a Remove of a listener that    *)
(* the call had seen registered: Adds alone never lead to it.                    *)
PanicIsDisturbed ==
    \A c \in Matchers : at[c] = "panicked" => ~(ever[c] \subseteq Listening)

THEOREM PanicNeedsRemove == BusSpec => []PanicIsDisturbed
<1>1. CallInv => PanicIsDisturbed
    BY DEF CallInv, CallsMatch, Undisturbed, PanicIsDisturbed
<1> QED
    BY <1>1, InitCalls, NextCallInv, PTL DEF BusSpec

(* Every variable of the bus has its type.                                       *)
THEOREM BusTypeCorrect ==
    ASSUME Careful
    PROVE  BusSpec => []BusTypeOK
<1>1. Inv /\ CallInv /\ FutureInv => BusTypeOK
  <2> SUFFICES ASSUME Inv, CallInv, FutureInv PROVE BusTypeOK
      OBVIOUS
  <2>1. TypeOK
      BY DEF Inv
  <2>2. TagTypeOK
    <3>1. /\ array # <<>> /\ \A i \in DOMAIN array : array[i] \in Seq(Listeners \cup {Nil})
          /\ length \in 0..Len(Array)
        BY DEF CallInv, TagInv, BucketTypes, Cells, Array
    <3>2. from \in 0..(length + 1) /\ to \in 0..(length + 1)
        BY DEF CallInv, TagInv, BucketTypes, BucketExact
    <3>3. \A m \in Matchers :
             /\ slice[m].array \in DOMAIN array
             /\ slice[m].length \in 0..Len(array[slice[m].array])
             /\ next[m] \in 0..(slice[m].length + 1)
        BY DEF CallInv, TagInv, BucketTypes, ScanTypes
    <3> QED
        BY <3>1, <3>2, <3>3 DEF TagTypeOK, CallInv, TagInv, BucketTypes, ScanTypes, Cells
  <2> QED
      BY <2>1, <2>2 DEF BusTypeOK, CallInv, CallTypes, FutureInv, FutureTypeOK
<1>2. BusInit => FutureInv
  BY BusAssumption DEF BusInit, FutureInv, FutureTypeOK, GotIsReply, FirstReplyWins, Gotten
<1>3. BusSpec => []Inv
  BY BusRegisters, Invariance
<1>4. BusSpec => [](CallInv /\ FutureInv)
  BY <1>2, InitCalls, NextCallInv, NextFutureInv, PTL DEF BusSpec
<1> QED
  BY <1>1, <1>3, <1>4, PTL
===============================================================================
