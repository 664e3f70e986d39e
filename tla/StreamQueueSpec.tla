-------------------------- MODULE StreamQueueSpec --------------------------
(***************************************************************************)
(* What a StreamQueue promises its users: every operation acts on a        *)
(* sequence of streams, and pop() hands out the front stream, in the order *)
(* START, its own data first-in first-out, END - or REMOVED or ERROR once  *)
(* it is erased.  `result' is what the last pop() returned.                *)
(***************************************************************************)
EXTENDS StreamQueue

CONSTANTS
    Ids,        \* stream ids
    Data        \* data items

VARIABLES streams, result

specVars == <<streams, result>>

Nothing == [type |-> "EMPTY", id |-> 0, data |-> NoItem]

\* The out-parameters of pop() for the queue q.
PopResult(q) ==
    IF PopType(q) = "EMPTY" THEN Nothing
    ELSE [type |-> PopType(q),
          id   |-> q[1].id,
          data |-> IF PopType(q) = "DATA" THEN Head(q[1].data) ELSE NoItem]

SpecInit == streams = <<>> /\ result = Nothing

\* Every operation but pop() changes the streams only.
SpecChange ==
    /\ \/ \E id \in Ids :
            \/ streams' = Start(streams, id)
            \/ \E d \in Data : streams' = Stream(streams, id, d)
            \/ streams' = End(streams, id)
            \/ \E t \in {"deleted", "error"} : streams' = Erase(streams, id, t)
       \/ streams' = Clear(streams)
       \/ streams' = <<>>
    /\ UNCHANGED result

SpecPop ==
    /\ streams' = Popped(streams)
    /\ result' = PopResult(streams)

SpecNext == SpecChange \/ SpecPop

SpecSpec == SpecInit /\ [][SpecNext]_specVars
=============================================================================
