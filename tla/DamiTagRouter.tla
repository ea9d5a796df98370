----------------------------- MODULE DamiTagRouter -----------------------------
(* One bucket of the TagRouter of dami/router_tag.go (and the patterns of the    *)
(* PathRouter, which are kept in the same way): a slice that Add and Remove      *)
(* change under the lock, and that Match reads after it has released the lock.   *)
(*                                                                               *)
(* A slice is a length and a backing array.  append writes behind the length, or *)
(* copies to a new array; slices.DeleteFunc moves the elements that stay towards *)
(* the front of the same array, one by one, and clears the rest.                 *)
EXTENDS Naturals, Sequences, SequencesExt

CONSTANTS
    Listeners,
    Matchers,    \* executions of Match, of a topic that all listeners match
    Removes,     \* the listeners that are removed again
    Nil, Nobody

ASSUME TagRouterAssumption ==
    /\ Removes \subseteq Listeners
    /\ Nil \notin Listeners
    /\ Nobody \notin Listeners

VARIABLES
    array,      \* backing arrays, the last of them in use; each as long as its capacity
    length,     \* length of the bucket's slice
    status,     \* status[l]: "new", "listening" or "gone"
    remover,    \* the listener whose Remove holds the lock
    from, to,   \* DeleteFunc: the next element to look at, and where it goes
    slice,      \* slice[m]: the array and length that Match m has read
    next,       \* next[m]: the element that m reads next; 0 before and after
    result,     \* result[m]: what m has matched
    always,     \* always[m]: the listeners registered when m began
    ever        \* ever[m]: those registered at some time during m

bucket  == <<array, length>>
delete  == <<remover, from, to>>
scans   == <<slice, next, result, always, ever>>
tagVars == <<bucket, status, delete, scans>>

Listening == {l \in Listeners : status[l] = "listening"}

TagInit ==
    /\ array = <<<<Nil>>>>
    /\ length = 0
    /\ status = [l \in Listeners |-> "new"]
    /\ remover = Nobody
    /\ from = 0
    /\ to = 0
    /\ slice = [m \in Matchers |-> [array |-> 1, length |-> 0]]
    /\ next = [m \in Matchers |-> 0]
    /\ result = [m \in Matchers |-> <<>>]
    /\ always = [m \in Matchers |-> {}]
    /\ ever = [m \in Matchers |-> {}]

Array == array[Len(array)]
Cell(i, v) == array' = [array EXCEPT ![Len(array)][i] = v]

Scanning == {m \in Matchers : next[m] # 0}

-------------------------------------------------------------------------------
(* Add: append under the lock.  A full array is copied to one of twice its     *)
(* size.                                                                       *)

Fresh(l) ==
    SubSeq(Array, 1, length) \o <<l>>
        \o [i \in 1..(IF length = 0 THEN 0 ELSE length - 1) |-> Nil]

(* Mutant: a new listener is put in front, in place. *)
AddInFront(l) ==
    /\ status[l] = "new"
    /\ remover = Nobody
    /\ array' = IF length < Len(Array)
                THEN [array EXCEPT ![Len(array)] =
                        [i \in DOMAIN @ |-> IF i = 1 THEN l
                                            ELSE IF i <= length + 1 THEN @[i - 1] ELSE @[i]]]
                ELSE Append(array, Fresh(l))
    /\ length' = length + 1
    /\ status' = [status EXCEPT ![l] = "listening"]
    /\ ever' = [m \in Matchers |-> IF m \in Scanning THEN ever[m] \cup {l} ELSE ever[m]]
    /\ UNCHANGED <<delete, slice, next, result, always>>

Add(l) ==
    /\ status[l] = "new"
    /\ remover = Nobody
    /\ IF length < Len(Array) THEN Cell(length + 1, l)
                              ELSE array' = Append(array, Fresh(l))
    /\ length' = length + 1
    /\ status' = [status EXCEPT ![l] = "listening"]
    /\ ever' = [m \in Matchers |-> IF m \in Scanning THEN ever[m] \cup {l} ELSE ever[m]]
    /\ UNCHANGED <<delete, slice, next, result, always>>

-------------------------------------------------------------------------------
(* Remove: slices.DeleteFunc, then the shorter slice, under the lock. *)

RemoveBegins(l) ==
    /\ l \in Removes
    /\ status[l] = "listening"
    /\ remover = Nobody
    /\ remover' = l
    /\ to' = CHOOSE i \in 1..length : Array[i] = l
    /\ from' = to' + 1
    /\ status' = [status EXCEPT ![l] = "gone"]
    /\ UNCHANGED <<bucket, scans>>

RemoveMoves ==
    /\ remover # Nobody
    /\ from <= length
    /\ Cell(to, Array[from])
    /\ from' = from + 1
    /\ to' = to + 1
    /\ UNCHANGED <<length, status, remover, scans>>

RemoveClears ==
    /\ remover # Nobody
    /\ from > length
    /\ to <= length
    /\ Cell(to, Nil)
    /\ to' = to + 1
    /\ UNCHANGED <<length, status, remover, from, scans>>

RemoveEnds ==
    /\ remover # Nobody
    /\ to > length
    /\ length' = length - 1
    /\ remover' = Nobody
    /\ from' = 0
    /\ to' = 0
    /\ UNCHANGED <<array, status, scans>>

-------------------------------------------------------------------------------
(* Match: the slice is read under the lock, its elements are not.  One that    *)
(* Remove has cleared is dereferenced like any other.                          *)

MatchBegins(m) ==
    /\ next[m] = 0
    /\ remover = Nobody
    /\ slice' = [slice EXCEPT ![m] = [array |-> Len(array), length |-> length]]
    /\ next' = [next EXCEPT ![m] = 1]
    /\ result' = [result EXCEPT ![m] = <<>>]
    /\ always' = [always EXCEPT ![m] = Listening]
    /\ ever' = [ever EXCEPT ![m] = Listening]
    /\ UNCHANGED <<bucket, status, delete>>

MatchReads(m) ==
    /\ next[m] \in 1..slice[m].length
    /\ result' = [result EXCEPT ![m] = Append(@, array[slice[m].array][next[m]])]
    /\ next' = [next EXCEPT ![m] = @ + 1]
    /\ UNCHANGED <<bucket, status, delete, slice, always, ever>>

MatchEnds(m) ==
    /\ next[m] > slice[m].length
    /\ next' = [next EXCEPT ![m] = 0]
    /\ UNCHANGED <<bucket, status, delete, slice, result, always, ever>>

-------------------------------------------------------------------------------
TagTypeOK ==
    /\ array # <<>> /\ \A i \in DOMAIN array : array[i] \in Seq(Listeners \cup {Nil})
    /\ length \in 0..Len(Array)
    /\ status \in [Listeners -> {"new", "listening", "gone"}]
    /\ remover \in Removes \cup {Nobody}
    /\ from \in 0..(length + 1) /\ to \in 0..(length + 1)
    /\ \A m \in Matchers :
        /\ slice[m].array \in DOMAIN array
        /\ slice[m].length \in 0..Len(array[slice[m].array])
        /\ next[m] \in 0..(slice[m].length + 1)
    /\ result \in [Matchers -> Seq(Listeners \cup {Nil})]
    /\ always \in [Matchers -> SUBSET Listeners] /\ ever \in [Matchers -> SUBSET Listeners]

(* A Match that no Remove disturbs returns every listener that was registered  *)
(* all the time, and once, and none that was not registered at any time,       *)
(* whatever Add writes into the same backing array meanwhile.                  *)
MatchIsRegular ==
    \A m \in Matchers : next[m] > slice[m].length /\ ever[m] \subseteq Listening =>
        /\ always[m] \subseteq ToSet(result[m]) /\ ToSet(result[m]) \subseteq ever[m]
        /\ IsInjective(result[m])
===============================================================================
