------------------------------ MODULE Contracts ------------------------------
(***************************************************************************)
(* The event contracts: the domain topics and the event types each carries *)
(***************************************************************************)

Topics == {"orders", "payments", "inventory", "fraud", "shipping", "notifications"}

Types ==
    [orders        |-> {"OrderCreated", "OrderCompleted", "OrderFailed", "OrderCancelled"},
     payments      |-> {"PaymentRequested", "PaymentAuthorized", "PaymentRejected",
                        "PaymentRefundRequested", "PaymentRefunded"},
     inventory     |-> {"InventoryReservationRequested", "InventoryReserved",
                        "InventoryReservationFailed", "InventoryReleased"},
     fraud         |-> {"FraudCheckRequested", "FraudApproved", "FraudRejected"},
     shipping      |-> {"ShipmentRequested", "ShipmentCreated", "ShipmentFailed"},
     notifications |-> {"NotificationRequested", "NotificationSent"}]

EventTypes == UNION {Types[t] : t \in Topics}

\* The topic each event type is emitted to.
TopicOf == [m \in EventTypes |-> CHOOSE t \in Topics : m \in Types[t]]

\* The events that announce how an order ended.
Outcomes == {"OrderCompleted", "OrderFailed", "OrderCancelled"}

=============================================================================
