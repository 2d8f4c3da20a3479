----------------------------- MODULE ReconcileSteps -----------------------------
(***************************************************************************)
(* The controllers of this operator are written alike: a reconcile is a    *)
(* fixed sequence of steps, most of them of a few shapes, and each of them *)
(* may end it early.  A step is a record, a controller a sequence of them, *)
(* and the modules of the controllers give the steps their meaning.        *)
(***************************************************************************)

Step(op, input, cond, miss, then) ==
    [op |-> op, input |-> input, cond |-> cond, miss |-> miss, then |-> then]

(* Need: when the input is missing, condition cond is False and the        *)
(* reconcile ends, either to wait for an event ("wait": it returns nil) or *)
(* to be tried again ("retry": an error or RequeueAfter); when it is there *)
(* the conditions in "then" become True.  Make: a call that creates or     *)
(* updates an object.  Do: any other step, by name.                        *)
Need(input, cond, miss, then) == Step("need", input, cond, miss, then)
Make(cond) == Step("make", "none", cond, "retry", {cond})
Do(op) == Step(op, "none", "none", "retry", {})

(* What the deferred function of every Reconcile ends with. *)
Save == <<Do("patch")>>
=============================================================================
