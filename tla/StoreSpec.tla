------------------------------ MODULE StoreSpec -----------------------------
(***************************************************************************)
(* What the program promises about the store, without saying how: the life *)
(* of the object of each derivative.  An object is started only when its    *)
(* dependencies have objects, one at a time; it is then sealed, taken back  *)
(* or given up.  Nothing ever happens to a sealed object, and nothing to    *)
(* one that was given up either: fs_exists() cannot tell the two apart.     *)
(***************************************************************************)
EXTENDS Naturals

CONSTANTS
    Item,       \* the derivatives
    Needs       \* Needs[n] \subseteq Item: the derivatives n depends on

VARIABLE status

Statuses == {"absent", "open", "sealed", "residue"}

TypeOK == status \in [Item -> Statuses]

Init == status = [n \in Item |-> "absent"]

Change(n, from, to) ==
    /\ status[n] = from
    /\ status' = [status EXCEPT ![n] = to]

Start(n) ==
    /\ \A m \in Item : status[m] # "open"
    /\ \A d \in Needs[n] : status[d] \in {"sealed", "residue"}
    /\ Change(n, "absent", "open")

Seal(n) == Change(n, "open", "sealed")
TakeBack(n) == Change(n, "open", "absent")
GiveUp(n) == Change(n, "open", "residue")

Next == \E n \in Item : Start(n) \/ Seal(n) \/ TakeBack(n) \/ GiveUp(n)

Spec == Init /\ [][Next]_status
=============================================================================
