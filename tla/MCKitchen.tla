------------------------------ MODULE MCKitchen ------------------------------
(***************************************************************************)
(* Constants for model checking KitchenService.                            *)
(***************************************************************************)
EXTENDS KitchenService, TLC

CONSTANTS o1, o2, p1, p2, w1, w2, w3

Event(id, order, items, form) == [id |-> id, order |-> order, items |-> items, form |-> form]

\* Two copies of one order, the second edited to have no items, with an event the
\* schema rejects and one that is not JSON.
AllForms ==
  {Event(1, o1, 2, "valid"), Event(2, o1, 0, "valid"),
   Event(3, o1, 1, "invalid"), Event(4, o1, 1, "garbled")}

\* p1 runs two callbacks at once, p2 one.
ThreeCallbacks == (w1 :> p1) @@ (w2 :> p1) @@ (w3 :> p2)
=============================================================================
