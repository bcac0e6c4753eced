----------------------------- MODULE PositionRow -----------------------------
(***************************************************************************)
(* What the open_position_state table promises to whoever reads it: at     *)
(* most one row; while the row is about one and the same purchase its      *)
(* entry price is fixed and its trailing stop only tightens; a row is      *)
(* replaced only by one about a later purchase.                            *)
(***************************************************************************)
EXTENDS Integers

CONSTANTS Price, None

VARIABLES
  row,    \* None, or the row
  bought  \* number of purchases made so far, the id of the latest

Row == [id : Nat, buy : Price, high : Price, stop : Int, active : BOOLEAN]

\* s is a later state of the trailing stop of r.
Tightens(r, s) ==
  /\ s.id = r.id /\ s.buy = r.buy
  /\ s.high >= r.high /\ s.stop >= r.stop
  /\ r.active => s.active

Init == row = None /\ bought = 0

Purchase == bought' = bought + 1 /\ UNCHANGED row

Open == /\ row' \in Row /\ row'.id = bought
        /\ row = None \/ row.id < bought
        /\ UNCHANGED bought

Tighten == row # None /\ row' \in Row /\ Tightens(row, row') /\ UNCHANGED bought

Close == row # None /\ row' = None /\ UNCHANGED bought

Next == Purchase \/ Open \/ Tighten \/ Close

Spec == Init /\ [][Next]_<<row, bought>>
=============================================================================
