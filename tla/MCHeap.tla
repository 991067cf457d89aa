------------------------------- MODULE MCHeap -------------------------------
(* A heap of a few bytes near the top of an address space of 64.               *)
EXTENDS Heap

Layout(size, align) == [size |-> size, align |-> align]

\* Requests that fit, that need padding, whose size leaves the address space,
\* and whose alignment does.
MCLayouts == {Layout(1, 1), Layout(3, 2), Layout(2, 4), Layout(40, 1), Layout(1, 32)}

\* The first caller makes them all, the others ask for a byte.
MCSpec ==
  /\ Init
  /\ [][Next /\ \A c \in Callers \ {1} : pc'[c] = "load_next" => layout'[c] = Layout(1, 1)]_vars
  /\ \A c \in Callers : WF_vars(AllocStep(c))
=============================================================================
