-------------------------------- MODULE McpCalls --------------------------------
(* What Session.SendRequest (mcp/session.go) promises, without ids, tables,      *)
(* channels or a pump: every call returns once; it returns a reply only when the *)
(* peer has answered that call; it is told that the session is closed only when  *)
(* it is; and once the session has ended no call stays open.                     *)
CONSTANT Calls

VARIABLES
    call,     \* call[c]: "idle", "open", or how the call has returned
    answers,  \* calls with an answer of the peer on its way, or delivered
    ended     \* the session has ended

vars == <<call, answers, ended>>

Outcomes == {"reply", "timeout", "closed", "transport"}

Init ==
    /\ call \in [Calls -> {"idle", "open"}]
    /\ answers = {}
    /\ ended = FALSE

Begin(c) ==
    /\ call[c] = "idle"
    /\ call' = [call EXCEPT ![c] = "open"]
    /\ UNCHANGED <<answers, ended>>

(* The peer answers a call, perhaps once more, perhaps after it has returned. *)
Answer(c) ==
    /\ call[c] # "idle"
    /\ answers' = answers \cup {c}
    /\ UNCHANGED <<call, ended>>

(* An answer that nobody waits for any more is dropped. *)
Drop(c) ==
    /\ call[c] # "reply"
    /\ answers' = answers \ {c}
    /\ UNCHANGED <<call, ended>>

Return(c) ==
    /\ call[c] = "open"
    /\ \E how \in Outcomes :
          /\ how = "reply" => c \in answers
          /\ how = "closed" => ended
          /\ call' = [call EXCEPT ![c] = how]
    /\ UNCHANGED <<answers, ended>>

End ==
    /\ ended' = TRUE
    /\ UNCHANGED <<call, answers>>

Next ==
    \/ \E c \in Calls : Begin(c) \/ Answer(c) \/ Drop(c) \/ Return(c)
    \/ End

Spec == Init /\ [][Next]_vars

FairSpec == Spec /\ \A c \in Calls : WF_vars(ended /\ Return(c))
=================================================================================
