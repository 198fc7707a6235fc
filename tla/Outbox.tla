------------------------------- MODULE Outbox -------------------------------
(***************************************************************************)
(* What the message producer promises whoever hands it a message: the      *)
(* broker may take the message any number of times, the caller gets at     *)
(* most one answer, and an answer that says success comes after the broker *)
(* has taken the message.  An answer that says failure says nothing.       *)
(***************************************************************************)
EXTENDS Naturals

CONSTANT Message

VARIABLES
    taken,      \* per message: how often the broker has taken it
    answer      \* per message: what its caller was told

Init ==
    /\ taken = [m \in Message |-> 0]
    /\ answer = [m \in Message |-> "none"]

Take(m) ==
    /\ taken' = [taken EXCEPT ![m] = @ + 1]
    /\ UNCHANGED answer

(* The answers of one call come together.                                  *)
Answer(told, failed) ==
    /\ \A m \in told \cup failed : answer[m] = "none"
    /\ \A m \in told : taken[m] > 0
    /\ answer' = [m \in Message |-> IF m \in told THEN "success"
                                    ELSE IF m \in failed THEN "failure"
                                    ELSE answer[m]]
    /\ UNCHANGED taken

Next ==
    \/ \E m \in Message : Take(m)
    \/ \E told, failed \in SUBSET Message : told \cap failed = {} /\ Answer(told, failed)

Spec == Init /\ [][Next]_<<taken, answer>>
=============================================================================
