------------------------------ MODULE Linking ------------------------------
(***************************************************************************)
(* Linking a Telegram chat to a user (notify/link.go, webhook.go).  A user *)
(* is given a code; the chat that sends it to the bot becomes the user's.  *)
(* The code is spent by the statement that reads it, the chat is taken     *)
(* from whoever has it, and given: three statements of one transaction.    *)
(***************************************************************************)
EXTENDS FiniteSets, Integers

CONSTANTS
  Updates,  \* messages the bot receives
  Codes,
  Users,
  Chats,
  Unset

VARIABLES
  codes,    \* committed codes: their user and whether they are spent
  expired,  \* codes whose quarter of an hour is over
  chatOf,   \* the committed chat of each user
  updates,  \* the handlers of the messages
  links     \* links committed: by which message, of which code, user and chat

linkingVars == <<codes, expired, chatOf, updates, links>>

(* Rows a transaction has changed: nothing before its first statement. *)
Untouched == [u \in {} |-> Unset]

NoUpdate == [op |-> "none", step |-> "idle", code |-> Unset, chat |-> Unset, inTime |-> FALSE,
             spent |-> FALSE, user |-> Unset, found |-> {}, own |-> Untouched,
             reply |-> "none"]

(* Users may have chats before: each chat is of one user. *)
LinkingInit ==
  /\ codes = [c \in Codes |-> [user |-> Unset, used |-> FALSE]]
  /\ expired = {}
  /\ chatOf \in [Users -> Chats \cup {Unset}]
  /\ \A u, v \in Users : u # v /\ chatOf[u] # Unset => chatOf[u] # chatOf[v]
  /\ updates = [w \in Updates |-> NoUpdate]
  /\ links = {}

In(w, step) == updates[w].step = step

Others(w) == Updates \ {w}

(* Transactions that have spent the code, changed the row of a user, put a   *)
(* chat into a row or taken it out of one, and have not ended.               *)
SpendingCode(w, c) == {o \in Others(w) : updates[o].spent /\ updates[o].code = c}

ChangingUser(w, u) == {o \in Others(w) : u \in DOMAIN updates[o].own}

MovingChat(w, chat) ==
  {o \in Others(w) : \E u \in DOMAIN updates[o].own :
                        updates[o].own[u] = chat \/ chatOf[u] = chat}

Own(w, u, chat) ==
  [v \in DOMAIN updates[w].own \cup {u} |-> IF v = u THEN chat ELSE updates[w].own[v]]

(* The row as the transaction sees it. *)
ChatSeen(w, u) == IF u \in DOMAIN updates[w].own THEN updates[w].own[u] ELSE chatOf[u]

Reply(w, reply) ==
  updates' = [updates EXCEPT ![w] =
    [@ EXCEPT !.step = "done", !.reply = reply, !.spent = FALSE, !.own = Untouched]]

-----------------------------------------------------------------------------

CreateLinkInvite(c, u) ==
  /\ codes[c].user = Unset
  /\ codes' = [codes EXCEPT ![c].user = u]
  /\ UNCHANGED <<expired, chatOf, updates, links>>

Expire(c) ==
  /\ codes[c].user # Unset /\ c \notin expired
  /\ expired' = expired \cup {c}
  /\ UNCHANGED <<codes, chatOf, updates, links>>

(* The time is read before the statement that compares it. *)
StartLink(w) ==
  /\ In(w, "idle")
  /\ \E c \in Codes, chat \in Chats :
       updates' = [updates EXCEPT ![w] =
         [NoUpdate EXCEPT !.op = "start", !.step = "use", !.code = c, !.chat = chat,
                          !.inTime = c \notin expired]]
  /\ UNCHANGED <<codes, expired, chatOf, links>>

StartUnlink(w) ==
  /\ In(w, "idle")
  /\ \E chat \in Chats :
       updates' = [updates EXCEPT ![w] =
         [NoUpdate EXCEPT !.op = "stop", !.step = "look", !.chat = chat]]
  /\ UNCHANGED <<codes, expired, chatOf, links>>

(* A plausible mistake: the code is looked up, and not spent by the same      *)
(* statement: it waits for nobody.                                            *)
ReadLinkCode(w) ==
  /\ In(w, "use")
  /\ LET code == codes[updates[w].code]
     IN  IF code.user # Unset /\ ~code.used /\ updates[w].inTime
         THEN updates' = [updates EXCEPT ![w] =
                [@ EXCEPT !.step = "look", !.spent = TRUE, !.user = code.user]]
         ELSE Reply(w, "invalid")
  /\ UNCHANGED <<codes, expired, chatOf, links>>

(* A code being spent by another is waited for, and then found spent or not. *)
UseTelegramLinkCode(w) ==
  /\ In(w, "use")
  /\ SpendingCode(w, updates[w].code) = {}
  /\ LET code == codes[updates[w].code]
     IN  IF code.user # Unset /\ ~code.used /\ updates[w].inTime
         THEN updates' = [updates EXCEPT ![w] =
                [@ EXCEPT !.step = "look", !.spent = TRUE, !.user = code.user]]
         ELSE Reply(w, "invalid")
  /\ UNCHANGED <<codes, expired, chatOf, links>>

(* The update that takes the chat away finds its rows in what is committed... *)
LookForChat(w) ==
  /\ In(w, "look")
  /\ updates' = [updates EXCEPT ![w] =
       [@ EXCEPT !.step = "clear", !.found = {u \in Users : chatOf[u] = updates[w].chat}]]
  /\ UNCHANGED <<codes, expired, chatOf, links>>

(* ... and changes those that, once it has their locks, still have the chat. *)
ClearUserTelegramChatID(w) ==
  /\ In(w, "clear")
  /\ LET has == {u \in updates[w].found : chatOf[u] = updates[w].chat}
         next == IF updates[w].op = "start" THEN "set" ELSE "commit"
     IN  /\ \A u \in updates[w].found : ChangingUser(w, u) = {}
         /\ updates' = [updates EXCEPT ![w] =
              [@ EXCEPT !.step = next, !.own = [u \in has |-> Unset]]]
  /\ UNCHANGED <<codes, expired, chatOf, links>>

(* The unique index: another's row that has the chat refuses it, one that is *)
(* changing is waited for.                                                   *)
HasChat(w) == {u \in Users \ {updates[w].user} : ChatSeen(w, u) = updates[w].chat}

SetUserTelegramChatID(w) ==
  /\ In(w, "set")
  /\ ChangingUser(w, updates[w].user) = {} /\ MovingChat(w, updates[w].chat) = {}
  /\ IF HasChat(w) = {}
     THEN updates' = [updates EXCEPT ![w] =
            [@ EXCEPT !.step = "commit", !.own = Own(w, updates[w].user, updates[w].chat)]]
     ELSE Reply(w, "error")
  /\ UNCHANGED <<codes, expired, chatOf, links>>

CommitUpdate(w) ==
  /\ In(w, "commit")
  /\ chatOf' = [u \in Users |-> ChatSeen(w, u)]
  /\ IF updates[w].op = "start"
     THEN /\ codes' = [codes EXCEPT ![updates[w].code].used = TRUE]
          /\ links' = links \cup {[by |-> w, code |-> updates[w].code,
                                   user |-> updates[w].user, chat |-> updates[w].chat]}
     ELSE UNCHANGED <<codes, links>>
  /\ Reply(w, IF updates[w].op = "start" THEN "linked" ELSE "unlinked")
  /\ UNCHANGED expired

WaitsOn(w) ==
  CASE In(w, "use") -> SpendingCode(w, updates[w].code)
    [] In(w, "clear") -> UNION {ChangingUser(w, u) : u \in updates[w].found}
    [] In(w, "set") -> ChangingUser(w, updates[w].user) \cup MovingChat(w, updates[w].chat)
    [] OTHER -> {}

(* The database ends a transaction of a cycle: its code stays good. *)
LinkDeadlock(w) ==
  /\ \E o \in WaitsOn(w) : w \in WaitsOn(o)
  /\ Reply(w, "error")
  /\ UNCHANGED <<codes, expired, chatOf, links>>

(* The database cannot be reached, or the server stops. *)
LinkFails(w) ==
  /\ ~In(w, "idle") /\ ~In(w, "done")
  /\ Reply(w, "error")
  /\ UNCHANGED <<codes, expired, chatOf, links>>

UpdateStep(w) ==
  \/ UseTelegramLinkCode(w) \/ LookForChat(w) \/ ClearUserTelegramChatID(w)
  \/ SetUserTelegramChatID(w) \/ CommitUpdate(w) \/ LinkDeadlock(w)

LinkingNext ==
  \/ \E c \in Codes : Expire(c) \/ \E u \in Users : CreateLinkInvite(c, u)
  \/ \E w \in Updates :
       StartLink(w) \/ StartUnlink(w) \/ UpdateStep(w) \/ LinkFails(w)

LinkingFairness == \A w \in Updates : WF_linkingVars(UpdateStep(w))

LinkingSpec == LinkingInit /\ [][LinkingNext]_linkingVars

-----------------------------------------------------------------------------

(* A code links one chat, to the user it was given to, however many messages  *)
(* bring it at once; a link that fails leaves the code good, and the bot says *)
(* that the chat is linked only when it is so in the database (notify/link.go,*)
(* LinkChat; webhook.go, handleStart).  A chat has one user.                  *)
CodesBuyOneLink ==
  /\ \A c \in Codes :
       LET bought == {l \in links : l.code = c}
       IN  /\ Cardinality(bought) = IF codes[c].used THEN 1 ELSE 0
           /\ \A l \in bought : l.user = codes[c].user
  /\ \A w \in Updates : updates[w].reply = "linked" <=> \E l \in links : l.by = w
  /\ \A u, v \in Users : chatOf[u] = chatOf[v] => u = v \/ chatOf[u] = Unset

(* Whatever it waits for, every message to the bot is answered. *)
UpdatesEnd == \A w \in Updates : ~In(w, "idle") ~> In(w, "done")

=============================================================================
