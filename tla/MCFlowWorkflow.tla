---------------------------- MODULE MCFlowWorkflow ----------------------------
(* An instance with a human task, two parallel branches of one human task each, *)
(* a join and an automatic task, worked at by two users: both may operate the   *)
(* first task, and each one branch.  One claims a task at a time, the other      *)
(* finds all that are next.                                                     *)
EXTENDS FlowWorkflow
CONSTANTS u1, u2, a, b, c, h1, h2, d, fork, join

MCActivities == {a, h1, h2, d}
MCFirst == <<a>>
MCLinks == [n \in MCActivities \cup {fork, join} |->
              CASE n = a    -> <<fork>>
                [] n = fork -> <<h1, h2>>
                [] n \in {h1, h2} -> <<join>>
                [] n = join -> <<d>>
                [] n = d    -> <<>>]
MCOperates == [u \in {u1, u2} |-> IF u = u1 THEN {a, h1} ELSE {a, h2}]
MCIntents == [u \in {u1, u2} |-> IF u = u1 THEN {"claim"} ELSE {"findNext"}]

(* After the first task two automatic ones: b before the join, and c before a    *)
(* human task that the join also waits for.                                      *)
FanActivities == {a, b, c, h1, d}
FanFirst == <<a>>
FanLinks == [n \in FanActivities \cup {join} |->
              CASE n = a        -> <<b, c>>
                [] n \in {b, h1} -> <<join>>
                [] n = c        -> <<h1>>
                [] n = join     -> <<d>>
                [] n = d        -> <<>>]
FanOperates == [u \in {u1} |-> {a, h1}]
FanIntents == [u \in {u1} |-> {"claim"}]
===============================================================================
