-------------------------- MODULE ContractsProofs ---------------------------
(***************************************************************************)
(* What the proofs about Saga and Projection use of the event contracts    *)
(***************************************************************************)
EXTENDS Contracts, TLAPS

\* Every event type has one topic.
LEMMA TopicOfType ==
    ASSUME NEW t \in Topics, NEW m \in Types[t]
    PROVE  m \in EventTypes /\ TopicOf[m] = t
<1>1. m \in EventTypes
  BY DEF EventTypes
<1>2. \A u \in Topics : m \in Types[u] => u = t
  BY DEF Topics, Types
<1>3. TopicOf[m] = CHOOSE u \in Topics : m \in Types[u]
  BY <1>1 DEF TopicOf
<1>4. QED
  BY <1>1, <1>2, <1>3

\* ... and is listed there.
LEMMA TopicsOfTypes ==
    ASSUME NEW m \in EventTypes
    PROVE  TopicOf[m] \in Topics /\ m \in Types[TopicOf[m]]
<1>1. PICK t \in Topics : m \in Types[t]
  BY DEF EventTypes
<1>2. QED
  BY <1>1, TopicOfType

\* The topics of the events the properties name.
LEMMA TopicTable ==
    /\ \A m \in {"OrderCreated", "OrderCompleted", "OrderFailed", "OrderCancelled"} :
         m \in EventTypes /\ TopicOf[m] = "orders"
    /\ \A m \in {"PaymentRequested", "PaymentAuthorized", "PaymentRejected",
                 "PaymentRefundRequested", "PaymentRefunded"} :
         m \in EventTypes /\ TopicOf[m] = "payments"
    /\ \A m \in {"InventoryReservationRequested", "InventoryReserved",
                 "InventoryReservationFailed", "InventoryReleased"} :
         m \in EventTypes /\ TopicOf[m] = "inventory"
    /\ \A m \in {"FraudCheckRequested", "FraudApproved", "FraudRejected"} :
         m \in EventTypes /\ TopicOf[m] = "fraud"
    /\ \A m \in {"ShipmentRequested", "ShipmentCreated", "ShipmentFailed"} :
         m \in EventTypes /\ TopicOf[m] = "shipping"
    /\ \A m \in {"NotificationRequested", "NotificationSent"} :
         m \in EventTypes /\ TopicOf[m] = "notifications"
<1>1. /\ \A m \in {"OrderCreated", "OrderCompleted", "OrderFailed", "OrderCancelled"} :
           m \in Types["orders"]
      /\ \A m \in {"PaymentRequested", "PaymentAuthorized", "PaymentRejected",
                   "PaymentRefundRequested", "PaymentRefunded"} : m \in Types["payments"]
      /\ \A m \in {"InventoryReservationRequested", "InventoryReserved",
                   "InventoryReservationFailed", "InventoryReleased"} : m \in Types["inventory"]
      /\ \A m \in {"FraudCheckRequested", "FraudApproved", "FraudRejected"} : m \in Types["fraud"]
      /\ \A m \in {"ShipmentRequested", "ShipmentCreated", "ShipmentFailed"} : m \in Types["shipping"]
      /\ \A m \in {"NotificationRequested", "NotificationSent"} : m \in Types["notifications"]
  BY DEF Types
<1>2. {"orders", "payments", "inventory", "fraud", "shipping", "notifications"} \subseteq Topics
  BY DEF Topics
<1>3. QED
  BY <1>1, <1>2, TopicOfType

=============================================================================
