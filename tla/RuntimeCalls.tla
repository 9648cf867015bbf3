----------------------------- MODULE RuntimeCalls -----------------------------
(***************************************************************************)
(* What a caller of Runtime (app/runtime.py) is promised: its call ends    *)
(* once, it is executed at most once, and it is answered only after it     *)
(* was executed; it may fail whether or not it was.                        *)
(***************************************************************************)
CONSTANT Calls

VARIABLES outcome,   \* "none" until the call ends
          executed   \* the calls a controller has carried out

Outcome == {"none", "answered", "failed"}

Init == outcome = [c \in Calls |-> "none"] /\ executed = {}

\* A controller carries the call out, even if nobody waits any more.
Executes(c) == c \notin executed /\ executed' = executed \cup {c} /\ UNCHANGED outcome

Answers(c) ==
    /\ outcome[c] = "none" /\ c \in executed
    /\ outcome' = [outcome EXCEPT ![c] = "answered"]
    /\ UNCHANGED executed

\* Timeout, cancellation, or the loss of a controller, which may fail several.
Fail(failing) ==
    /\ \A c \in failing : outcome[c] = "none"
    /\ outcome' = [c \in Calls |-> IF c \in failing THEN "failed" ELSE outcome[c]]
    /\ UNCHANGED executed

Next == \/ \E c \in Calls : Executes(c) \/ Answers(c)
        \/ \E failing \in SUBSET Calls : Fail(failing)

Spec == Init /\ [][Next]_<<outcome, executed>>

=============================================================================
