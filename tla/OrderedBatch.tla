---------------------------- MODULE OrderedBatch ----------------------------
(***************************************************************************)
(* What executeToolCalls promises to runLoopBody, which passes it the tool *)
(* calls of an assistant message: the calls behave as if they were run in  *)
(* the order of the message around the exclusive ones, each is answered    *)
(* once, and after an interrupt no call begins and the answers are told to *)
(* be skipped.  Promises, hooks, polls and queues are not seen from here.  *)
(***************************************************************************)
EXTENDS Integers

CONSTANTS MaxCalls   \* bound on the tool calls of one assistant message

VARIABLES
    total,        \* the number of calls
    exclusive,    \* the calls of an exclusive tool
    running,      \* the calls that have begun and are not answered
    answer,       \* the answer of each call, or "none"
    interrupted,  \* a steering message has come
    returned      \* the answers have been given back

vars == <<total, exclusive, running, answer, interrupted, returned>>

Calls == 1..total
Answers == {"ok", "error", "refused", "skipped"}

Init ==
    /\ total \in 1..MaxCalls
    /\ exclusive \in SUBSET Calls
    /\ running = {}
    /\ answer = [i \in Calls |-> "none"]
    /\ interrupted = FALSE
    /\ returned = FALSE

(* An exclusive call begins when all calls before it are answered, another *)
(* when the exclusive ones are.                                            *)
Begin(i) ==
    /\ i \notin running /\ answer[i] = "none"
    /\ ~interrupted
    /\ \A j \in Calls : j < i /\ (i \in exclusive \/ j \in exclusive) => answer[j] # "none"
    /\ running' = running \cup {i}
    /\ UNCHANGED <<total, exclusive, answer, interrupted, returned>>

Answer(i, a) ==
    /\ i \in running
    /\ (a = "skipped") = interrupted
    /\ running' = running \ {i}
    /\ answer' = [answer EXCEPT ![i] = a]
    /\ UNCHANGED <<total, exclusive, interrupted, returned>>

Interrupt ==
    /\ ~interrupted
    /\ interrupted' = TRUE
    /\ UNCHANGED <<total, exclusive, running, answer, returned>>

(* All calls are answered, or the others are skipped.                      *)
Return ==
    /\ ~returned
    /\ running = {}
    /\ interrupted \/ \A i \in Calls : answer[i] # "none"
    /\ answer' = [i \in Calls |-> IF answer[i] = "none" THEN "skipped" ELSE answer[i]]
    /\ returned' = TRUE
    /\ UNCHANGED <<total, exclusive, running, interrupted>>

Next ==
    \/ \E i \in Calls : Begin(i)
    \/ \E i \in Calls, a \in Answers : Answer(i, a)
    \/ Interrupt
    \/ Return

Spec == Init /\ [][Next]_vars
=============================================================================
