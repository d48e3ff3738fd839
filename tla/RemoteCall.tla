----------------------------- MODULE RemoteCall ------------------------------
(***************************************************************************)
(* What the commands of the control path promise: one call runs at a time, *)
(* each returns without an answer or with one that no other call got, and  *)
(* as long as none has returned without one every call gets its own.       *)
(***************************************************************************)
EXTENDS Naturals, Sequences

VARIABLES given,        \* how many calls were given; the last may be running
          running,
          source        \* for each finished call: the call whose answer it got, or 0

vars == <<given, running, source>>

Init == given = 0 /\ running = FALSE /\ source = <<>>

Give == /\ ~running /\ running' = TRUE
        /\ given' = given + 1
        /\ UNCHANGED source

Taken == {source[c] : c \in 1..Len(source)}

\* A call that returned without an answer leaves one behind that a later call
\* may take for its own.
Eligible == IF 0 \in Taken THEN (1..given) \ Taken ELSE {given}

Return == /\ running /\ running' = FALSE
          /\ \E r \in {0} \cup Eligible : source' = Append(source, r)
          /\ UNCHANGED given

Next == Give \/ Return

Spec == Init /\ [][Next]_vars
=============================================================================
