----------------------------- MODULE OnceTable -----------------------------
(***************************************************************************)
(* What the callers of the instruction-form table rely on, with no word    *)
(* about how the table is built: it becomes ready once and for ever, and   *)
(* whoever asks it for the forms of an instruction class gets all of them. *)
(***************************************************************************)
EXTENDS Naturals

CONSTANTS Threads,   \* the threads that ask
          Forms      \* a function: instruction class -> the set of its forms

VARIABLES ready,     \* the table has been published
          answer     \* what each thread holds: <<class, forms>>, or <<>> for none

vars == <<ready, answer>>

Init ==
    /\ ready = FALSE
    /\ answer = [t \in Threads |-> <<>>]

Publish ==
    /\ ~ready
    /\ ready' = TRUE
    /\ UNCHANGED answer

Answer(t, c) ==
    /\ ready
    /\ answer' = [answer EXCEPT ![t] = <<c, Forms[c]>>]
    /\ UNCHANGED ready

Leave(t) ==
    /\ answer' = [answer EXCEPT ![t] = <<>>]
    /\ UNCHANGED ready

Next ==
    \/ Publish
    \/ \E t \in Threads, c \in DOMAIN Forms : Answer(t, c)
    \/ \E t \in Threads : Leave(t)

Spec == Init /\ [][Next]_vars
=============================================================================
