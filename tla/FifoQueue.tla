------------------------------ MODULE FifoQueue ------------------------------
(***************************************************************************)
(* What a queue of lib/mux promises to the code that uses it: an element   *)
(* that was pushed is popped once, and elements leave in the order in      *)
(* which they entered.  BufChain is shown to implement this specification. *)
(***************************************************************************)
EXTENDS Sequences

CONSTANT Value

VARIABLES queue,   \* the elements inside, oldest first
          popped   \* the elements handed out so far, in order

Init == queue = <<>> /\ popped = <<>>

Push == /\ queue' \in {Append(queue, v) : v \in Value}
        /\ UNCHANGED popped

Pop == /\ queue # <<>>
       /\ popped' = Append(popped, Head(queue))
       /\ queue' = Tail(queue)

Next == Push \/ Pop

Spec == Init /\ [][Next]_<<queue, popped>>
==============================================================================
