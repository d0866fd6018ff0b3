----------------------------- MODULE MCListings -----------------------------
(* Three rows and one to come, in every list: two of the rows are of one     *)
(* millisecond.                                                              *)
EXTENDS Listings

(* What is asked for: a list, its filters, the length of a page.            *)
ListDesks == UNION {{list} \X Scopes(list) \X (1..2) : list \in Lists}

RowAt(list, i) ==
    CASE i = 4 -> Void
      [] list \in PartyLists \/ list = "notifications" -> Row(IF i = 1 THEN 1 ELSE 2, <<IF i = 1 THEN 0 ELSE 1, 1>>, "active")
      [] list \in EventLists -> Row(1, <<IF i = 1 THEN 0 ELSE 1, 1>>, "posted")
      [] OTHER -> Row(1, <<1, 0>>, IF list = "reportOfCorrections" THEN "cancelled" ELSE "posted")

(* What the theorems about Listings take for granted of rows and names.      *)
ASSUME ListsAreOfRows == ListingAssumption

StartAt(d) ==
    /\ table = [i \in ListIds |-> RowAt(d[1], i)]
    /\ walk = Walk(d[1], d[2], d[3])
    /\ written = 0
=============================================================================
