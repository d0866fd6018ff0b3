--------------------------- MODULE MCNotifications ---------------------------
(* What a store has, what of it changes meanwhile, and the timer.            *)
EXTENDS Notifications

Settings == [amount |-> 2, limit |-> 3, days |-> 2, low |-> TRUE]

(* What the books of each desk say, and may come to say: the first is where  *)
(* they begin.                                                               *)
Debt(due, age) == [due |-> due, age |-> age]
Owed(due, net) == [due |-> due, net |-> net]
Stocked(amount) == [amount |-> amount, threshold |-> 1]

FactValues(d) ==
    CASE d = "customers" ->
           [settings |-> <<Settings>>, customer |-> <<Debt(3, 2), Debt(2, 1), Debt(0, None)>>]
      [] d = "goods" ->
           [settings |-> <<Settings>>, stock |-> <<Stocked(-1), Stocked(0), Stocked(2)>>]
      [] d = "thresholds" ->
           [settings |-> <<Settings, [Settings EXCEPT !.amount = 1, !.limit = None, !.low = FALSE]>>,
            customer |-> <<Debt(3, 1), Debt(1, 1)>>, stock |-> <<Stocked(1)>>]
      [] d = "suppliers" ->
           [settings |-> <<Settings>>, supplier |-> <<Owed(1, 1), Owed(0, -1)>>]
      [] d = "days" ->
           [settings |-> <<Settings>>, subscription |-> <<7, 8>>]
      [] d = "backups" ->
           [settings |-> <<Settings>>, backup |-> <<TRUE, FALSE>>]
AlertDesks == {"customers", "goods", "thresholds", "suppliers", "days", "backups"}

(* Where days are counted, two episodes of the expiry are over already, the *)
(* later one of the two opened first.                                        *)
Past(ended) == [Alert([key |-> "subscription_expiry", text |-> 0], TRUE) EXCEPT !.ended = ended]
AlertInit(d) ==
    NotificationsInit([f \in DOMAIN FactValues(d) |-> FactValues(d)[f][1]],
                      IF d = "days" THEN <<Past(-1), Past(-2)>> ELSE <<>>)

(* The timer runs where days are counted, the reader marks where backups are *)
(* shown, and there the writes may close.                                    *)
ServeNotifications(d) ==
    \/ \E r \in Runs :
         \/ \E until \in {ticks + 1, ticks + 2} : (d = "days" \/ until = ticks + 1) /\ Ask(r, until)
         \/ ReadBackup(r) \/ ReadSettings(r) \/ ReadCauses(r) \/ Match(r)
         \/ Commit(r) \/ Fail(r) \/ List(r)
    \/ d = "days" /\ Tick
    \/ /\ d = "backups"
       /\ Close \/ \E i \in DOMAIN alerts, read \in BOOLEAN : SetReadState(i, read)
    \/ \E f \in DOMAIN books : \E k \in DOMAIN FactValues(d)[f] : Change(f, FactValues(d)[f][k])
    \/ UNCHANGED alertVars
=============================================================================
