---------------------------- MODULE MCProjection ----------------------------
(* Small instances of Projection for TLC: stretches of the saga's histories *)
(* with the events that can overtake each other.                            *)
EXTENDS Projection, TLC

Requested == <<"OrderCreated", "PaymentRequested">>
Paid      == Requested \o <<"PaymentAuthorized", "InventoryReservationRequested">>
Reserved  == Paid \o <<"InventoryReserved", "FraudCheckRequested">>
NoStock   == <<"InventoryReservationFailed", "PaymentRefundRequested", "PaymentRefunded",
               "OrderCancelled">>
Suspect   == Reserved \o <<"FraudRejected">>
Cleared   == Reserved \o <<"FraudApproved", "ShipmentRequested">>

InTopic(es, t) == SelectSeq(es, LAMBDA e : TopicOf[e] = t)

\* The events of past are projected, those of live are still in their topics.
Scenario(past, live, others, f, r) ==
    [topics |-> [t \in Topics |-> InTopic(past \o live, t)],
     read   |-> [t \in Topics |-> Len(InTopic(past, t))],
     past   |-> past, others |-> others, quantity |-> 1, faults |-> f, replays |-> r]

Ordering(q, s) == [s EXCEPT !.quantity = q]

\* Events that overtake each other, with up to two faults.
Overtaking ==
    {Scenario(<<>>, <<"OrderCreated", "PaymentRequested", "PaymentRejected">>, 0, 1, 0),
     Scenario(<<>>, <<"OrderCreated", "PaymentRequested">>, 0, 2, 0),
     Scenario(Requested, <<"PaymentRejected", "OrderFailed">>, 0, 2, 0),
     Scenario(Requested,
              <<"PaymentAuthorized", "InventoryReservationRequested", "InventoryReserved">>, 0, 1, 0),
     Scenario(Paid, NoStock, 0, 0, 0),
     Scenario(Suspect, <<"InventoryReleased", "PaymentRefundRequested", "PaymentRefunded">>, 1, 1, 0),
     Scenario(Paid, <<"InventoryReserved", "FraudCheckRequested">>, 1, 2, 0),
     Ordering(-1, Scenario(Suspect, <<"InventoryReleased">>, 1, 2, 0)),
     Ordering(0, Scenario(Paid, <<"InventoryReserved">>, 0, 1, 0)),
     Ordering(2, Scenario(Reserved, <<"FraudRejected", "InventoryReleased">>, 0, 1, 0)),
     Ordering(-1, Scenario(Paid, <<"InventoryReserved">>, 0, 0, 1)),
     Scenario(Reserved, <<"FraudApproved", "ShipmentRequested", "ShipmentCreated">>, 0, 1, 0),
     Scenario(Cleared, <<"ShipmentCreated", "OrderCompleted", "NotificationRequested">>, 0, 1, 0)}

\* A replay request while events come in.
Racing ==
    {Scenario(<<"OrderCreated">>, <<"PaymentRequested", "PaymentAuthorized">>, 0, 0, 1),
     Scenario(Requested, <<"PaymentRejected", "OrderFailed">>, 0, 0, 1),
     Scenario(Requested, <<"PaymentRejected">>, 0, 1, 1),
     Scenario(Paid, <<"InventoryReserved", "FraudCheckRequested">>, 0, 0, 1),
     Scenario(Suspect, <<"InventoryReleased">>, 0, 1, 1)}

\* Replay requests of an order that is through: overlapping, failing, repeated.
Repeating ==
    {Scenario(Paid \o NoStock, <<>>, 0, 1, 2),
     Scenario(Requested \o <<"PaymentRejected", "OrderFailed">>, <<>>, 0, 1, 3)}

\* Nothing goes wrong and nobody asks for a replay.
Undisturbed == {Scenario(Paid, NoStock, 0, 0, 0)}

\* One replay of an order that holds stock, nothing going wrong.
HoldingStock == {Scenario(Reserved, <<"FraudApproved">>, 0, 0, 1)}

\* An order that reserves stock, and one rebalance.
Rebalancing == {Scenario(Paid, <<"InventoryReserved">>, 0, 1, 0)}

MCScenarios == Overtaking \cup Racing \cup Repeating

=============================================================================
