------------------------ MODULE OperationController ------------------------
(***************************************************************************)
(* OperationController (src/common/op_ctl.h): the state it keeps and what  *)
(* each of its methods does to it.  The class has no mutex and no thread of*)
(* its own, so the module has no Init and no Next: Speech and Tts call the *)
(* methods inside the regions they lock, and hold the sleepers of op_cond_.*)
(*                                                                         *)
(* Operations are shared pointers that outlive their place in operations_: *)
(* ops keeps every operation ever allocated and a pointer is an index.     *)
(***************************************************************************)
EXTENDS Naturals, Sequences

VARIABLES
    ops,            \* every Operation allocated; operations_ is a suffix
    removed,        \* how many of them remove_front_op() took off
    cur,            \* current_op_: its index in ops, 0 for null
    timed           \* calc_op_timeout of the current operation

opVars == <<ops, removed, cur, timed>>

Statuses == {"START", "STREAMING", "END", "CANCELLED", "ERROR"}

Terminal == {"END", "CANCELLED", "ERROR"}

Operations == [id : Nat, status : Statuses]

\* Variant: the index is taken after the push.
NewOpAfterPush(id, status) ==
    /\ ops' = Append(ops, [id |-> id, status |-> status])
    /\ cur' = IF status = "START" THEN Len(ops) + 2 ELSE cur
    /\ timed' = (status # "START" /\ timed)
    /\ UNCHANGED removed

NewOp(id, status) ==
    /\ ops' = Append(ops, [id |-> id, status |-> status])
    /\ cur' = IF status = "START" THEN Len(ops) + 1 ELSE cur
    /\ timed' = (status # "START" /\ timed)
    /\ UNCHANGED removed

\* ops with the operations at the indices in which in the given status.
OpsIn(which, status) ==
    [i \in DOMAIN ops |->
        IF i \in which THEN [ops[i] EXCEPT !.status = status] ELSE ops[i]]

\* ops with the current operation, if there is one, in the given status.
CurrentIn(status) == OpsIn({cur}, status)

NoCurrent == cur' = 0 /\ timed' = FALSE

SetOpError ==
    /\ ops' = CurrentIn("ERROR")
    /\ NoCurrent
    /\ UNCHANGED removed

\* ops after finish_op(): END unless CANCELLED or ERROR already.
Finished ==
    IF cur # 0 /\ ops[cur].status \notin {"CANCELLED", "ERROR"}
    THEN CurrentIn("END") ELSE ops

FinishOp ==
    /\ ops' = Finished
    /\ NoCurrent
    /\ UNCHANGED removed

\* The operations cancel_op(id) marks: all of operations_, or the first
\* with that id.
Matching(id) ==
    LET same == {i \in DOMAIN ops : i > removed /\ (id = 0 \/ ops[i].id = id)}
    IN IF id = 0 THEN same ELSE {i \in same : \A j \in same : i <= j}

\* The current operation is compared with the marked ones by id.
CancelsCurrent(id) ==
    cur # 0 /\ \E i \in Matching(id) : ops[i].id = ops[cur].id

\* Variant: the current operation is reset whichever operation was cancelled.
CancelOpAlwaysResets(id) ==
    /\ ops' = OpsIn(Matching(id), "CANCELLED")
    /\ NoCurrent
    /\ UNCHANGED removed

CancelOp(id) ==
    /\ ops' = OpsIn(Matching(id), "CANCELLED")
    /\ cur' = IF CancelsCurrent(id) THEN 0 ELSE cur
    /\ timed' = (timed /\ ~CancelsCurrent(id))
    /\ UNCHANGED removed

\* refresh_op_time(): from now on the current operation can time out.
RefreshOpTime == timed' = (cur # 0) /\ UNCHANGED <<ops, removed, cur>>

\* front_op(): the next operation poll() has to report.
Front == ops[removed + 1]

HasFront == removed < Len(ops)
=============================================================================
