---------------------------- MODULE ErrorObserver ----------------------------
(***************************************************************************)
(* The error list an ErrorObserver keeps behind its mutex (session.rs).    *)
(* The replayer's own queues push onto it; every reader takes the mutex    *)
(* for one look.  The list is a sequence that is only ever appended to.    *)
(* A message is abstracted to its position in that list, which is what     *)
(* the callers' decisions depend on; the position tells apart any two      *)
(* errors, where the code's strings may coincide.                          *)
(***************************************************************************)
EXTENDS Naturals, Sequences

(* -notifyError: ends in a push, whatever object it was handed. *)
Record(errors, e) == Append(errors, e)

(* The mark a fetch takes before it is dispatched. *)
ErrorCount(errors) == Len(errors)

NoError == 0

(* `errors.get(mark..)?.first()`: nothing when the mark is past the end    *)
(* (get answers None) and nothing when the tail is empty.                  *)
FirstErrorSince(errors, mark) ==
  IF mark < Len(errors) THEN mark + 1 ELSE NoError

FirstError(errors) == FirstErrorSince(errors, 0)
=============================================================================
