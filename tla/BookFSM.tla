------------------------------- MODULE BookFSM -------------------------------
(***************************************************************************)
(* The state machine of a shared book, books/models/shared_book.py.        *)
(*                                                                         *)
(* Each `@transition` method of SharedBook is one entry: the statuses it   *)
(* may be called in and the status it leaves.  django-fsm raises           *)
(* TransitionNotAllowed outside `from`.  The column codes are the code's:  *)
(*   "S" suspended     "T" transferable   "R" restorable (to be returned)  *)
(*   "V" reserved      "O" occupied (lent)                                 *)
(*   "E" exception     "L" lost           "D" destroyed                    *)
(***************************************************************************)

BookStatus == {"S", "T", "R", "V", "O", "E", "L", "D"}

\* Transitions the owner, the keeper or the exception desk trigger.
ListingTransitions ==
  [list_for_transfer |-> [from |-> {"S"}, to |-> "T"],
   suspend           |-> [from |-> {"T"}, to |-> "S"],
   declare_exception |-> [from |-> {"T", "O", "R"}, to |-> "E"],
   mark_as_lost      |-> [from |-> {"E"}, to |-> "L"],
   mark_as_destroyed |-> [from |-> {"E"}, to |-> "D"],
   mark_as_found     |-> [from |-> {"E"}, to |-> "S"]]

\* Transitions the life of a deal triggers.
DealTransitions ==
  [reserve           |-> [from |-> {"T"}, to |-> "V"],
   mark_as_borrowed  |-> [from |-> {"V"}, to |-> "O"],
   mark_as_suspended |-> [from |-> {"R", "V"}, to |-> "S"],
   mark_as_overdue   |-> [from |-> {"O"}, to |-> "R"],
   mark_as_returned  |-> [from |-> {"O"}, to |-> "T"]]
=============================================================================
