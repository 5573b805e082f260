-------------------------------- MODULE Outbox --------------------------------
(***************************************************************************)
(* What the agent promises of the terminal results of its commands: a      *)
(* result that has been made meets exactly one end, and meets it soon or   *)
(* late, whatever connections come and go.  It is delivered; or it is lost *)
(* with a stream that had accepted it, dropped because too many waited, or *)
(* given up because it cannot be sent at all; or the process forgets it.   *)
(***************************************************************************)
CONSTANT Results

VARIABLE fate

Open == {"working", "pending"}
Ends == {"delivered", "lost", "dropped", "poisoned", "forgotten"}

Init == fate = [r \in Results |-> "working"]

Make(r) ==
    /\ fate[r] = "working"
    /\ fate' = [fate EXCEPT ![r] = "pending"]

(* One result meets its end, or several are lost with one stream. *)
Settle(some, end) ==
    /\ some # {} /\ \A r \in some : fate[r] = "pending"
    /\ fate' = [r \in Results |-> IF r \in some THEN end ELSE fate[r]]

(* The process ends, and with it the work and the results in its memory;   *)
(* results its streams had accepted may be lost too.                       *)
EndProcess(some, gone) ==
    /\ \A r \in some : fate[r] \in Open
    /\ \A r \in gone : fate[r] = "pending"
    /\ fate' = [r \in Results |-> IF r \in gone THEN "lost"
                                  ELSE IF r \in some THEN "forgotten" ELSE fate[r]]

Next ==
    \/ \E r \in Results : Make(r) \/ \E end \in {"delivered", "dropped", "poisoned"} : Settle({r}, end)
    \/ \E some \in SUBSET Results :
        Settle(some, "lost") \/ \E gone \in SUBSET Results : EndProcess(some, gone)

Fairness == \A r \in Results : WF_fate(fate[r] = "pending" /\ Next /\ fate'[r] # fate[r])

(* What may happen, and what must. *)
Safety == Init /\ [][Next]_fate

Spec == Safety /\ Fairness
=============================================================================
