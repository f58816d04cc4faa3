------------------------------ MODULE MCWaits ------------------------------
(* Who waits for whom, in three places where transactions lock several rows:  *)
(* the journal, where movements are recorded and reversed; the shelves, where *)
(* two counts of the same items are posted; and the counter, where two orders *)
(* of the same items are sent, cancelled and received.  In each, movements    *)
(* are recorded next to that.                                                 *)
EXTENDS Counts, Orders

CONSTANTS a, b, k1, h1, d1, d2

VARIABLE place

ordersVars == <<orders, onOrder, orderWork>>

AllByName == <<a, b>>

AllKeys == UserKeys \cup {ReceiptKey(h, d, i) : h \in Headers, d \in Docs, i \in Items}

(* Documents filled in, ready to be posted; orders drafted, ready to be sent. *)
MCInit ==
  /\ place \in {"journal", "shelves", "counter"}
  /\ Init
  /\ docStatus = [d \in Docs |-> IF place = "shelves" THEN "draft" ELSE "none"]
  /\ lines = [d \in Docs |-> Empty(IF place = "shelves" THEN [expected |-> 0, counted |-> 1]
                                                        ELSE NoLine)]
  /\ task = [c \in Clients |-> NoTask]
  /\ orderStatus = [d \in Docs |-> IF place = "counter" THEN "draft" ELSE "none"]
  /\ orderLines = [d \in Docs |-> Empty(IF place = "counter" THEN [ordered |-> 1, received |-> 0]
                                                             ELSE NoOrderLine)]
  /\ onOrder = Empty(0)
  /\ newOnOrder = [c \in Clients |-> Empty(Unset)]
  /\ seen = [c \in Clients |-> NoSight]
  /\ job = [c \in Clients |-> NoJob]

RecordOne(c, S) == \E i \in S, k \in UserKeys : StartRecord(c, i, "receipt", 1, k)

JournalNext ==
  /\ \/ \E c \in Clients :
          \/ RecordOne(c, Items)
          \/ \E i \in Items, k \in UserKeys : StartRecord(c, i, "usage", 1, k)
          \/ \E i \in Items : \E n \in DOMAIN journal[i] : StartReverse(c, i, n)
          \/ Step(c)
          \/ Abort(c)
     \/ \E i \in Items : ArchiveItem(i)
  /\ UNCHANGED <<documents, task>>

ShelvesNext ==
  \/ \E c \in Clients :
       \/ RecordOne(c, Items) /\ UNCHANGED <<documents, task>>
       \/ \E d \in Docs, force \in BOOLEAN : StartPostCount(c, d, force)
       \/ CountStep(c)
       \/ Abort(c) /\ EndTask(c) /\ UNCHANGED documents
  \/ \E i \in Items : ArchiveCounted(i)

(* Movements of the item that is locked last. *)
CounterNext ==
  \E c \in Clients :
    \/ RecordOne(c, {Last(ByName)}) /\ UNCHANGED ordersVars
    \/ \E d \in Docs :
         \/ \E op \in {"send", "cancel"} : StartOrderJob(c, d, op, NoKey, <<>>)
         \/ \E h \in Headers : StartOrderJob(c, d, "receive", h, <<>>)
    \/ OrderStep(c)
    \/ Abort(c) /\ EndJob(c) /\ UNCHANGED <<orders, onOrder>>

MCNext ==
  /\ UNCHANGED place
  /\ \/ place = "journal" /\ JournalNext /\ UNCHANGED ordersVars
     \/ place = "shelves" /\ ShelvesNext /\ UNCHANGED ordersVars
     \/ place = "counter" /\ CounterNext /\ UNCHANGED <<documents, task>>

Goes(c) ==
  /\ UNCHANGED place
  /\ \/ place = "journal" /\ Step(c) /\ UNCHANGED <<documents, task, ordersVars>>
     \/ place = "shelves" /\ CountStep(c) /\ UNCHANGED ordersVars
     \/ place = "counter" /\ OrderStep(c) /\ UNCHANGED <<documents, task>>

mcVars == <<vars, documents, task, ordersVars, place>>

(* A transaction keeps executing statements once it has begun; nobody is      *)
(* obliged to send a request or to break one off.  A statement that has to    *)
(* wait is queued by PostgreSQL and gets its turn: strong fairness.  When     *)
(* transactions wait in a circle PostgreSQL fails one of them.                *)
MCSpec == MCInit /\ [][MCNext]_mcVars /\ \A c \in Clients : SF_mcVars(Goes(c))

=============================================================================
