------------------------------ MODULE MCCc3000 ------------------------------
(***************************************************************************)
(* Small instances of Cc3000: the calm environment, and each trouble alone.*)
(***************************************************************************)
EXTENDS Cc3000

CalmOne == [steady |-> TRUE, patient |-> TRUE, whole |-> TRUE,
            alive |-> TRUE, clean |-> TRUE]

\* A calm chip that may also give a buffer back within a decrement, and the
\* four ways of not being calm.
OneTrouble == {CalmOne} \cup {[CalmOne EXCEPT ![f] = FALSE] : f \in DOMAIN CalmOne}

SocketDies == {[CalmOne EXCEPT !.alive = FALSE]}
=============================================================================
