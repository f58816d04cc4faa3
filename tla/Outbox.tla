------------------------------- MODULE Outbox -------------------------------
(***************************************************************************)
(* The notification queue (internal/notify: service.go, outbox.go).        *)
(*                                                                         *)
(* A notification and the messages that carry it outside are rows written  *)
(* by the transaction of the event they are about.  Every 30 seconds the   *)
(* worker starts a pass over the queue, whether or not the previous pass   *)
(* is over: it claims a batch in one transaction, sends the messages one   *)
(* after another with no transaction open, and records each result in a    *)
(* transaction of its own.                                                 *)
(*                                                                         *)
(* The clock is abstracted: a message is due or not yet due, and one that  *)
(* is not becomes due sooner or later.                                     *)
(***************************************************************************)
EXTENDS Integers, FiniteSets

CONSTANTS
  Notices,      \* notifications, named by their deduplication key
  Addresses,    \* a channel and a recipient: a Telegram chat, a mailbox
  Dead,         \* addresses that refuse for good, or whose channel is not set up
  Passes,       \* passes of the dispatcher that may overlap
  Batch,        \* messages a pass takes at most
  MaxAttempts,  \* attempts before a message is given up
  MaxSlips,     \* bound: the slips that may befall a message
  NoReply       \* nothing is being sent

ASSUME DeadAssumption     == Dead \subseteq Addresses
ASSUME PassesAssumption   == IsFiniteSet(Passes)
ASSUME BatchAssumption    == Batch \in Nat \ {0}
ASSUME AttemptsAssumption == MaxAttempts \in Nat \ {0}
ASSUME SlipsAssumption    == MaxSlips \in Nat

Messages == Notices \X Addresses
AddressOf(m) == m[2]

Results == {"ok", "error", "refused"}

ASSUME NoReplyAssumption == NoReply \notin Messages \X Results

VARIABLES
  feed,       \* notifications: committed rows of the feed
  status,     \* outbox.status; "none" when there is no such row
  attempts,   \* outbox.attempts
  due,        \* messages whose next_attempt_at has come
  try,        \* the attempt a pass makes with a message it has claimed, or 0
  reply,      \* what a pass has just sent, and what the channel answered
  delivered,  \* how often a message reached its recipient
  slips       \* how often something went wrong with a message

rows  == <<feed, status, attempts, due>>
world == <<delivered, slips>>
vars  == <<rows, try, reply, world>>

Init ==
  /\ feed      = {}
  /\ status    = [m \in Messages |-> "none"]
  /\ attempts  = [m \in Messages |-> 0]
  /\ due       = {}
  /\ try       = [p \in Passes |-> [m \in Messages |-> 0]]
  /\ reply     = [p \in Passes |-> NoReply]
  /\ delivered = [m \in Messages |-> 0]
  /\ slips     = [m \in Messages |-> 0]

\* The passes that have claimed a message and are not done with it.
Holders(m) == {p \in Passes : try[p][m] > 0}

Holds(p, m) == try[p][m] > 0

-----------------------------------------------------------------------------
(* Emit: the part of the event's transaction that concerns the queue.       *)

\* ON CONFLICT DO NOTHING: the key is in the feed, that is all.
EmitAgain(n) == n \in feed /\ UNCHANGED vars

\* The recipients are whoever is linked at the moment, nobody in a sandbox;
\* during quiet hours an urgent message is put off.
Emit(n, to, now) ==
  LET posted == {n} \X to IN
  /\ n \notin feed
  /\ feed' = feed \cup {n}
  /\ status' = [m \in Messages |-> IF m \in posted THEN "pending" ELSE status[m]]
  /\ due' = IF now THEN due \cup posted ELSE due
  /\ UNCHANGED <<attempts, try, reply, world>>

\* The clock reaches next_attempt_at.
ComeDue(m) ==
  /\ status[m] = "pending"
  /\ m \notin due
  /\ due' = due \cup {m}
  /\ UNCHANGED <<feed, status, attempts, try, reply, world>>

-----------------------------------------------------------------------------
(* Dispatch                                                                 *)

Claimable == {m \in due : status[m] = "pending"}

\* Mutant: a claimed message is taken out of the queue at once.
ClaimForGood(p, S) ==
  /\ \A m \in Messages : ~ Holds(p, m)
  /\ S \subseteq Claimable
  /\ S # {} /\ Cardinality(S) <= Batch
  /\ status' = [m \in Messages |-> IF m \in S THEN "sending" ELSE status[m]]
  /\ attempts' = [m \in Messages |-> IF m \in S THEN attempts[m] + 1
                                                ELSE attempts[m]]
  /\ try' = [try EXCEPT ![p] = [m \in Messages |-> IF m \in S
                                                   THEN attempts[m] + 1 ELSE 0]]
  /\ UNCHANGED <<feed, due, reply, world>>

\* Mutant: the attempt is counted in the reply of the query only.
ClaimUncounted(p, S) ==
  /\ \A m \in Messages : ~ Holds(p, m)
  /\ S \subseteq Claimable
  /\ S # {} /\ Cardinality(S) <= Batch
  /\ try' = [try EXCEPT ![p] = [m \in Messages |-> IF m \in S
                                                   THEN attempts[m] + 1 ELSE 0]]
  /\ UNCHANGED <<rows, reply, world>>

\* ClaimOutbox: one UPDATE that counts an attempt of each message it takes, and
\* nothing else: the message stays pending and due, and the row locks go with
\* the transaction.  Rows another claim has locked are skipped.
Claim(p, S) ==
  /\ \A m \in Messages : ~ Holds(p, m)
  /\ S \subseteq Claimable
  /\ S # {} /\ Cardinality(S) <= Batch
  /\ attempts' = [m \in Messages |-> IF m \in S THEN attempts[m] + 1
                                                ELSE attempts[m]]
  /\ try' = [try EXCEPT ![p] = [m \in Messages |-> IF m \in S
                                                   THEN attempts[m] + 1 ELSE 0]]
  /\ slips' = [m \in Messages |-> IF m \in S /\ Holders(m) # {}
                                  THEN slips[m] + 1 ELSE slips[m]]
  /\ UNCHANGED <<feed, status, due, reply, delivered>>

\* The channel's answer.  A dead address refuses; a live one takes the message
\* or does not, and an error may reach the sender either way (a timeout).
Send(p, m, result) ==
  /\ Holds(p, m)
  /\ reply[p] = NoReply
  /\ (result = "refused") <=> (AddressOf(m) \in Dead)
  /\ reply' = [reply EXCEPT ![p] = <<m, result>>]
  /\ delivered' = IF result = "ok" THEN [delivered EXCEPT ![m] = @ + 1]
                                   ELSE delivered
  /\ UNCHANGED <<rows, try, slips>>

SendTimesOut(p, m) ==
  /\ Holds(p, m)
  /\ reply[p] = NoReply
  /\ AddressOf(m) \notin Dead
  /\ slips[m] < MaxSlips
  /\ reply' = [reply EXCEPT ![p] = <<m, "error">>]
  /\ delivered' = [delivered EXCEPT ![m] = @ + 1]
  /\ slips' = [slips EXCEPT ![m] = @ + 1]
  /\ UNCHANGED <<rows, try>>

\* The pass goes on to its next message.
NextMessage(p, m) ==
  /\ try' = [try EXCEPT ![p][m] = 0]
  /\ reply' = [reply EXCEPT ![p] = NoReply]

\* Mutant: one attempt too many.
GivesUpLate(p, m, result) == result = "refused" \/ try[p][m] > MaxAttempts

\* Mutant: an error is as good as a refusal.
GivesUpAtOnce(p, m, result) == result # "ok"

\* The attempt that counts is the one this pass claimed.
GivesUp(p, m, result) ==
  result = "refused" \/ (result = "error" /\ try[p][m] >= MaxAttempts)

\* Mutant: a message that was sent is only put off.
ResultNotKept(p, m, result) ==
  IF GivesUp(p, m, result) THEN "failed" ELSE status[m]

\* markSent and markFailed overwrite whatever status the row has by now;
\* reschedule leaves it.
StatusAfter(p, m, result) ==
  IF result = "ok" THEN "sent"
  ELSE IF GivesUp(p, m, result) THEN "failed" ELSE status[m]

\* markSent, markFailed, reschedule.
Mark(p, m, result) ==
  /\ reply[p] = <<m, result>>
  /\ status' = [status EXCEPT ![m] = StatusAfter(p, m, result)]
  /\ due' = IF result = "error" /\ ~ GivesUp(p, m, result)
            THEN due \ {m} ELSE due
  /\ NextMessage(p, m)
  /\ UNCHANGED <<feed, attempts, world>>

\* The result cannot be recorded; the error is logged and the pass goes on.
MarkLost(p, m) ==
  /\ reply[p] \in {m} \X Results
  /\ slips[m] < MaxSlips
  /\ slips' = [slips EXCEPT ![m] = @ + 1]
  /\ NextMessage(p, m)
  /\ UNCHANGED <<rows, delivered>>

\* The worker stops in the middle of a pass.
Crash(p) ==
  /\ \E m \in Messages : Holds(p, m)
  /\ \A m \in Messages : Holds(p, m) => slips[m] < MaxSlips
  /\ slips' = [m \in Messages |-> IF Holds(p, m) THEN slips[m] + 1
                                                 ELSE slips[m]]
  /\ try' = [try EXCEPT ![p] = [m \in Messages |-> 0]]
  /\ reply' = [reply EXCEPT ![p] = NoReply]
  /\ UNCHANGED <<rows, delivered>>

-----------------------------------------------------------------------------

StartPass(p)  == \E S \in SUBSET Claimable : Claim(p, S)
Transmit(p)   == \E m \in Messages, result \in Results : Send(p, m, result)
Record(p)     == \E m \in Messages, result \in Results : Mark(p, m, result)

Mishap(p) ==
  \/ \E m \in Messages : SendTimesOut(p, m) \/ MarkLost(p, m)
  \/ Crash(p)

Next ==
  \/ \E n \in Notices, to \in SUBSET Addresses, now \in BOOLEAN : Emit(n, to, now)
  \/ \E n \in Notices : EmitAgain(n)
  \/ \E m \in Messages : ComeDue(m)
  \/ \E p \in Passes : StartPass(p) \/ Transmit(p) \/ Record(p) \/ Mishap(p)

Spec == Init /\ [][Next]_vars

\* Time passes, the scheduler starts a pass every 30 seconds, and a pass that
\* is not broken off goes through its batch: each send has a timeout.
Fairness ==
  /\ \A m \in Messages : WF_vars(ComeDue(m))
  /\ \A p \in Passes : /\ WF_vars(StartPass(p))
                       /\ WF_vars(Transmit(p))
                       /\ WF_vars(Record(p))

FairSpec == Spec /\ Fairness

-----------------------------------------------------------------------------
(* Properties *)

\* Types; an attempt under way is one the queue has counted, and only messages
\* of notifications in the feed are queued.
OutboxTypeOK ==
  /\ feed \subseteq Notices
  /\ status \in [Messages -> {"none", "pending", "sent", "failed"}]
  /\ attempts \in [Messages -> Nat]
  /\ due \subseteq Messages
  /\ try \in [Passes -> [Messages -> Nat]]
  /\ reply \in [Passes -> (Messages \X Results) \cup {NoReply}]
  /\ delivered \in [Messages -> Nat]
  /\ slips \in [Messages -> Nat]
  /\ \A p \in Passes, m \in Messages : try[p][m] <= attempts[m]
  /\ \A m \in Messages : status[m] # "none" => m[1] \in feed

\* A message is delivered once, and once more at most for every slip it met: a
\* claim by a second pass, an answer or a result that got lost, a crash.
DuplicatesHaveReasons == \A m \in Messages : delivered[m] <= 1 + slips[m]

\* MaxAttempts is kept but for slips: crashes and overlapping passes each cost
\* an attempt at most.
RetriesAreBounded == \A m \in Messages : attempts[m] <= MaxAttempts + slips[m]

\* A message is marked sent only when it has been delivered, and given up only
\* at a dead address or after MaxAttempts attempts.
MarksAreEarned ==
  \A m \in Messages :
    /\ status[m] = "sent" => delivered[m] > 0
    /\ status[m] = "failed" => \/ AddressOf(m) \in Dead
                               \/ attempts[m] >= MaxAttempts

\* Nothing is lost: a queued message is in the end sent or given up, through
\* crashes and lost results (ADR-004).
MessagesSettle ==
  \A m \in Messages : status[m] = "pending" ~> status[m] \in {"sent", "failed"}

\* ADR-004: a notification is not sent twice.
NotSentTwice == \A m \in Messages : delivered[m] <= 1

=============================================================================
