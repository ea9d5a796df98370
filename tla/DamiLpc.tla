-------------------------------- MODULE DamiLpc --------------------------------
(* Registration of a provider type with dami/lpc.go: RegisterProvider reserves   *)
(* the type's slot, registers a listener for each method without the lock, and   *)
(* stores the list of listeners; UnregisterProvider takes the slot and removes   *)
(* the listeners it lists.                                                       *)
EXTENDS Naturals, FiniteSets

CONSTANTS
    Registrars,    \* executions of RegisterProvider, all for one provider type
    Unregistrars,  \* executions of UnregisterProvider
    Methods,       \* exported methods of the provider type
    Careful        \* nobody unregisters the type while it is being registered

ASSUME LpcAssumption ==
    /\ Registrars \cap Unregistrars = {}
    /\ Careful \in BOOLEAN

Procs == Registrars \cup Unregistrars

VARIABLES
    exists,     \* the slot l.providers[t] exists
    records,    \* the listeners it lists
    listening,  \* listeners on the bus: pairs of a registrar and a method
    todo,       \* todo[p]: what p has still to register or to remove
    pc          \* pc[p]

vars == <<exists, records, listening, todo, pc>>

Init ==
    /\ exists = FALSE
    /\ records = {}
    /\ listening = {}
    /\ todo = [p \in Procs |-> {}]
    /\ pc = [p \in Procs |-> "idle"]

Goto(p, l) == pc' = [pc EXCEPT ![p] = l]

(* Mutant: the slot is looked up but not reserved. *)
ReserveNot(r) ==
    /\ pc[r] = "idle"
    /\ IF exists
       THEN Goto(r, "refused") /\ UNCHANGED <<exists, records, todo>>
       ELSE /\ todo' = [todo EXCEPT ![r] = {r} \X Methods]
            /\ Goto(r, "registering")
            /\ UNCHANGED <<exists, records>>
    /\ UNCHANGED listening

Reserve(r) ==
    /\ pc[r] = "idle"
    /\ IF exists
       THEN Goto(r, "refused") /\ UNCHANGED <<exists, records, todo>>
       ELSE /\ exists' = TRUE
            /\ records' = {}
            /\ todo' = [todo EXCEPT ![r] = {r} \X Methods]
            /\ Goto(r, "registering")
    /\ UNCHANGED listening

(* registerMethod, one method after the other (in whatever order). *)
RegisterMethod(r) ==
    /\ pc[r] = "registering"
    /\ \E x \in todo[r] :
          /\ listening' = listening \cup {x}
          /\ todo' = [todo EXCEPT ![r] = @ \ {x}]
    /\ UNCHANGED <<exists, records, pc>>

Store(r) ==
    /\ pc[r] = "registering"
    /\ todo[r] = {}
    /\ exists' = TRUE
    /\ records' = {r} \X Methods
    /\ Goto(r, "registered")
    /\ UNCHANGED <<listening, todo>>

TakeRecords(u) ==
    /\ pc[u] = "idle"
    /\ todo' = [todo EXCEPT ![u] = records]
    /\ exists' = FALSE
    /\ records' = {}
    /\ Goto(u, "removing")
    /\ UNCHANGED listening

(* Mutant: the loop stops at the first listener. *)
UnlistenFirst(u) ==
    /\ pc[u] = "removing"
    /\ \E x \in todo[u] :
          /\ listening' = listening \ {x}
          /\ todo' = [todo EXCEPT ![u] = {}]
    /\ UNCHANGED <<exists, records, pc>>

Unlisten(u) ==
    /\ pc[u] = "removing"
    /\ \E x \in todo[u] :
          /\ listening' = listening \ {x}
          /\ todo' = [todo EXCEPT ![u] = @ \ {x}]
    /\ UNCHANGED <<exists, records, pc>>

UnregisterEnds(u) ==
    /\ pc[u] = "removing"
    /\ todo[u] = {}
    /\ Goto(u, "done")
    /\ UNCHANGED <<exists, records, listening, todo>>

(* The users' care, which the code does not ask for. *)
MayUnregister == Careful => \A r \in Registrars : pc[r] # "registering"

Next ==
    \/ \E r \in Registrars : Reserve(r) \/ RegisterMethod(r) \/ Store(r)
    \/ \E u \in Unregistrars :
          (MayUnregister /\ TakeRecords(u)) \/ Unlisten(u) \/ UnregisterEnds(u)

Spec == Init /\ [][Next]_vars

-------------------------------------------------------------------------------
TypeOK ==
    /\ exists \in BOOLEAN
    /\ records \subseteq Registrars \X Methods
    /\ listening \subseteq Registrars \X Methods
    /\ todo \in [Procs -> SUBSET (Registrars \X Methods)]
    /\ pc \in [Procs -> {"idle", "registering", "registered", "refused", "removing", "done"}]

Active == {p \in Procs : pc[p] \in {"registering", "removing"}}

(* When no registration is under way, the bus and the slot agree: what listens *)
(* is what UnregisterProvider would remove, and nothing else.                  *)
SlotListsListeners == Active = {} => listening = records

(* The type is registered at most once: a method has at most one listener      *)
(* that nobody is about to remove.                                             *)
RegisteredOnce ==
    Active = {} => \A x, y \in listening : x[2] = y[2] => x = y

-------------------------------------------------------------------------------
(* The inductive invariant both properties rest on, while nobody unregisters a *)
(* type that is being registered.                                              *)

(* Registrars register and unregistrars remove, each once. *)
Roles ==
    /\ \A r \in Registrars : pc[r] \in {"idle", "registering", "registered", "refused"}
    /\ \A u \in Unregistrars : pc[u] \in {"idle", "removing", "done"}

(* The slot is reserved for the one that registers, and it is still empty. *)
Reserved ==
    \A r \in Registrars :
        pc[r] = "registering" =>
            /\ exists /\ records = {} /\ todo[r] \subseteq {r} \X Methods
            /\ \A q \in Registrars : pc[q] = "registering" => q = r

(* A slot that does not exist lists nothing, and one lists a single registration. *)
OneOwner ==
    /\ ~exists => records = {}
    /\ \A x, y \in records : x[1] = y[1]

Removing(x) == \E u \in Unregistrars : pc[u] = "removing" /\ x \in todo[u]

(* Listeners listed, or about to be removed, are those of registrations that   *)
(* have ended, and each is to be removed by one only.                          *)
Settled ==
    /\ \A x \in Registrars \X Methods :
          x \in records \/ Removing(x) => pc[x[1]] = "registered"
    /\ \A x \in records : ~Removing(x)
    /\ \A u, v \in Unregistrars :
          pc[u] = "removing" /\ pc[v] = "removing" /\ todo[u] \cap todo[v] # {} => u = v

(* What listens is what the slot lists, what has been registered so far, and   *)
(* what has still to be removed.                                               *)
Accounted ==
    \A x \in Registrars \X Methods :
        x \in listening <=>
            \/ x \in records
            \/ pc[x[1]] = "registering" /\ x \notin todo[x[1]]
            \/ Removing(x)

Inv == TypeOK /\ Roles /\ Reserved /\ OneOwner /\ Settled /\ Accounted
===============================================================================
