---------------------------- MODULE OfficeProofs ----------------------------
(***************************************************************************)
(* Proofs about the work of the office: about Linking, for any number of   *)
(* messages, codes, users and chats; about Access, for any number of       *)
(* attempts, keys and any limit and window; about Catalogue, for any files *)
(* and any number of requests and names.  A code is guarded by the         *)
(* transaction that spends it, a row of a user by the one that changes it, *)
(* a chat by the one that gives it.  A limit is kept by marks that cover   *)
(* whatever was let in.  A request knows only of groups that are committed *)
(* or its own, and the row it writes in the place of another keeps its id. *)
(***************************************************************************)
EXTENDS Catalogue, Linking, Access, SumTheorems, SequenceTheorems

-----------------------------------------------------------------------------
(* The bot that links chats.                                                *)

Steps == {"idle", "use", "look", "clear", "set", "commit", "done"}

\* Rows of users, as a transaction has written them.
OwnRows == UNION {[S -> Chats \cup {Unset}] : S \in SUBSET Users}

Replies == {"none", "invalid", "linked", "unlinked", "error"}

UpdateType ==
  [ op : {"none", "start", "stop"}, step : Steps, code : Codes \cup {Unset},
    chat : Chats \cup {Unset}, inTime : BOOLEAN, spent : BOOLEAN,
    user : Users \cup {Unset}, found : SUBSET Users,
    own : OwnRows, reply : Replies ]

LinkingTypeOK ==
  /\ codes \in [Codes -> [user : Users \cup {Unset}, used : BOOLEAN]]
  /\ chatOf \in [Users -> Chats \cup {Unset}]
  /\ updates \in [Updates -> UpdateType]
  /\ links \subseteq [by : Updates, code : Codes, user : Users \cup {Unset},
                      chat : Chats \cup {Unset}]

\* Between spending the code and the end.
Spending(w) == updates[w].step \in {"look", "clear", "set", "commit"}

\* Messages that start a link carry a code, which has told them the user once it
\* is spent; only they spend one and give a chat.
StartsAreFilledIn ==
  \A w \in Updates :
    /\ updates[w].op = "start" => updates[w].code \in Codes
    /\ updates[w].op = "start" /\ Spending(w) => updates[w].user \in Users
    /\ updates[w].step \in {"use", "set"} => updates[w].op = "start"

\* A transaction that spends a code spends a good one, for its user.
SpentIsGood ==
  \A w \in Updates :
    /\ updates[w].spent => updates[w].op = "start" /\ Spending(w)
    /\ updates[w].op = "start" /\ Spending(w) =>
         LET code == codes[updates[w].code]
         IN  /\ updates[w].spent
             /\ ~ code.used
             /\ code.user = updates[w].user
             /\ code.user # Unset

\* No code is being spent twice.
SpentOnce ==
  \A w, o \in Updates :
    updates[w].spent /\ updates[o].spent /\ updates[w].code = updates[o].code => w = o

\* Links are of spent codes and of answered messages, one of each code.
LinksAreBought ==
  /\ \A l \in links :
       /\ codes[l.code].used
       /\ l.user = codes[l.code].user /\ l.user # Unset
       /\ updates[l.by].reply = "linked"
  /\ \A c \in Codes : codes[c].used => \E l \in links : l.code = c
  /\ \A k, l \in links : k.code = l.code => k = l

\* An answer is the last thing.
RepliesAreLast ==
  \A w \in Updates :
    /\ updates[w].reply # "none" <=> In(w, "done")
    /\ updates[w].reply = "linked" => \E l \in links : l.by = w

\* A row of a user is changed by one transaction at a time, and rows are
\* changed from the statement that takes a chat away to the commit.
RowsAreLocked ==
  /\ \A w \in Updates : DOMAIN updates[w].own # {} => updates[w].step \in {"set", "commit"}
  /\ \A w, o \in Updates :
       w # o => DOMAIN updates[w].own \cap DOMAIN updates[o].own = {}

\* What a transaction has written is nothing, but for the chat it gives.
OneChatGiven ==
  \A w \in Updates : \A u \in DOMAIN updates[w].own :
    \/ updates[w].own[u] = Unset
    \/ /\ In(w, "commit") /\ updates[w].op = "start"
       /\ u = updates[w].user
       /\ updates[w].own[u] = updates[w].chat

\* A chat that is being given has no other user, now or later.
GivenChatIsFree ==
  \A w \in Updates : \A u \in DOMAIN updates[w].own :
    updates[w].own[u] # Unset =>
      /\ \A v \in Users \ {u} : ChatSeen(w, v) # updates[w].own[u]
      /\ \A o \in Others(w) : \A v \in DOMAIN updates[o].own :
           updates[o].own[v] # updates[w].own[u]

\* Each chat is of one user.
ChatsAreSingle ==
  \A u, v \in Users : chatOf[u] = chatOf[v] => u = v \/ chatOf[u] = Unset

LinkingInv ==
  /\ LinkingTypeOK /\ StartsAreFilledIn
  /\ SpentIsGood /\ SpentOnce /\ LinksAreBought /\ RepliesAreLast
  /\ RowsAreLocked /\ OneChatGiven /\ GivenChatIsFree /\ ChatsAreSingle

-----------------------------------------------------------------------------
(* Types *)

\* What has been written is a part of the table.
LEMMA OwnIsOfUsers ==
  ASSUME NEW own \in OwnRows
  PROVE  /\ DOMAIN own \subseteq Users
         /\ \A u \in DOMAIN own : own[u] \in Chats \cup {Unset}
BY DEF OwnRows

LEMMA OwnRowsAre ==
  ASSUME NEW S \in SUBSET Users, NEW own \in [S -> Chats \cup {Unset}]
  PROVE  own \in OwnRows
BY DEF OwnRows

LEMMA UntouchedIsOwn == Untouched \in OwnRows /\ DOMAIN Untouched = {}
<1>1. Untouched \in [{} -> Chats \cup {Unset}]
  BY DEF Untouched
<1> QED BY <1>1, OwnRowsAre DEF Untouched

LEMMA SeenIsTyped ==
  ASSUME LinkingTypeOK, NEW w \in Updates, NEW u \in Users
  PROVE  ChatSeen(w, u) \in Chats \cup {Unset}
<1>1. updates[w].own \in OwnRows
  BY DEF LinkingTypeOK, UpdateType
<1> QED BY <1>1, OwnIsOfUsers DEF LinkingTypeOK, ChatSeen

LEMMA NewIsTyped == NoUpdate \in UpdateType
BY UntouchedIsOwn DEF UpdateType, NoUpdate, Steps, Replies

\* One message goes on.
LEMMA OneGoesOn ==
  ASSUME NEW v \in [Updates -> UpdateType], NEW w \in Updates, NEW r \in UpdateType
  PROVE  [v EXCEPT ![w] = r] \in [Updates -> UpdateType]
OBVIOUS

\* A message that is answered keeps its type.
LEMMA AnsweredIsTyped ==
  ASSUME LinkingTypeOK, NEW w \in Updates, NEW reply \in Replies, Reply(w, reply)
  PROVE  updates' \in [Updates -> UpdateType]
<1> DEFINE r == [updates[w] EXCEPT !.step = "done", !.reply = reply, !.spent = FALSE,
                                   !.own = Untouched]
<1>1. updates[w] \in UpdateType
  BY DEF LinkingTypeOK
<1>2. r \in UpdateType
  BY <1>1, UntouchedIsOwn DEF UpdateType, Steps
<1>3. updates' = [updates EXCEPT ![w] = r]
  BY DEF Reply
<1> HIDE DEF r
<1> QED BY <1>2, <1>3, OneGoesOn DEF LinkingTypeOK

\* Only messages change in most steps.
LEMMA OnlyMessages ==
  ASSUME LinkingTypeOK, updates' \in [Updates -> UpdateType], UNCHANGED <<codes, chatOf, links>>
  PROVE  LinkingTypeOK'
BY DEF LinkingTypeOK

LEMMA TypesHold ==
  ASSUME LinkingTypeOK, StartsAreFilledIn, [LinkingNext]_linkingVars
  PROVE  LinkingTypeOK'
<1> SUFFICES ASSUME LinkingNext PROVE LinkingTypeOK'
  BY DEF LinkingTypeOK, linkingVars
<1>1. ASSUME NEW c \in Codes, NEW u \in Users, CreateLinkInvite(c, u)
      PROVE  LinkingTypeOK'
  BY <1>1 DEF CreateLinkInvite, LinkingTypeOK
<1>2. ASSUME NEW c \in Codes, Expire(c)
      PROVE  LinkingTypeOK'
  BY <1>2 DEF Expire, LinkingTypeOK
<1>a. \A w \in Updates : updates[w] \in UpdateType /\ updates \in [Updates -> UpdateType]
  BY DEF LinkingTypeOK
<1>3. ASSUME NEW w \in Updates, StartLink(w)
      PROVE  LinkingTypeOK'
  <2>1. PICK c \in Codes, chat \in Chats :
          updates' = [updates EXCEPT ![w] =
            [NoUpdate EXCEPT !.op = "start", !.step = "use", !.code = c, !.chat = chat,
                             !.inTime = c \notin expired]]
    BY <1>3 DEF StartLink
  <2> DEFINE inTime == c \notin expired
             r == [NoUpdate EXCEPT !.op = "start", !.step = "use", !.code = c, !.chat = chat,
                                   !.inTime = inTime]
  <2>2. r \in UpdateType
    <3>1. inTime \in BOOLEAN
      OBVIOUS
    <3> HIDE DEF inTime
    <3> QED BY <3>1, NewIsTyped DEF UpdateType, Steps
  <2>3. updates' = [updates EXCEPT ![w] = r]
    BY <2>1
  <2> HIDE DEF r
  <2> QED BY <1>3, <1>a, <2>2, <2>3, OneGoesOn, OnlyMessages DEF StartLink
<1>4. ASSUME NEW w \in Updates, StartUnlink(w)
      PROVE  LinkingTypeOK'
  <2>1. PICK chat \in Chats :
          updates' = [updates EXCEPT ![w] =
            [NoUpdate EXCEPT !.op = "stop", !.step = "look", !.chat = chat]]
    BY <1>4 DEF StartUnlink
  <2> DEFINE r == [NoUpdate EXCEPT !.op = "stop", !.step = "look", !.chat = chat]
  <2>2. r \in UpdateType
    BY NewIsTyped DEF UpdateType, Steps
  <2>3. updates' = [updates EXCEPT ![w] = r]
    BY <2>1
  <2> HIDE DEF r
  <2> QED BY <1>4, <1>a, <2>2, <2>3, OneGoesOn, OnlyMessages DEF StartUnlink
<1>5. ASSUME NEW w \in Updates, UseTelegramLinkCode(w)
      PROVE  LinkingTypeOK'
  <2> DEFINE user == codes[updates[w].code].user
             r == [updates[w] EXCEPT !.step = "look", !.spent = TRUE, !.user = user]
  <2>1. CASE updates' = [updates EXCEPT ![w] = r]
    <3>1. user \in Users \cup {Unset}
      <4>1. updates[w].code \in Codes
        BY <1>5 DEF UseTelegramLinkCode, In, StartsAreFilledIn
      <4> QED BY <4>1 DEF LinkingTypeOK
    <3>2. r \in UpdateType
      <4> HIDE DEF user
      <4>1. "look" \in Steps
        BY DEF Steps
      <4> QED BY <1>a, <3>1, <4>1 DEF UpdateType
    <3> HIDE DEF r
    <3> QED BY <1>5, <1>a, <2>1, <3>2, OneGoesOn, OnlyMessages DEF UseTelegramLinkCode
  <2>2. CASE Reply(w, "invalid")
    BY <1>5, <2>2, AnsweredIsTyped, OnlyMessages DEF UseTelegramLinkCode, Replies
  <2> QED BY <1>5, <2>1, <2>2 DEF UseTelegramLinkCode
<1>6. ASSUME NEW w \in Updates, LookForChat(w)
      PROVE  LinkingTypeOK'
  <2> DEFINE found == {u \in Users : chatOf[u] = updates[w].chat}
             r == [updates[w] EXCEPT !.step = "clear", !.found = found]
  <2>1. r \in UpdateType
    <3> HIDE DEF found
    <3>1. found \in SUBSET Users
      BY DEF found
    <3>2. "clear" \in Steps
      BY DEF Steps
    <3> QED BY <1>a, <3>1, <3>2 DEF UpdateType
  <2>2. updates' = [updates EXCEPT ![w] = r]
    BY <1>6 DEF LookForChat
  <2> HIDE DEF r
  <2> QED BY <1>6, <1>a, <2>1, <2>2, OneGoesOn, OnlyMessages DEF LookForChat
<1>7. ASSUME NEW w \in Updates, ClearUserTelegramChatID(w)
      PROVE  LinkingTypeOK'
  <2> DEFINE has == {u \in updates[w].found : chatOf[u] = updates[w].chat}
             next == IF updates[w].op = "start" THEN "set" ELSE "commit"
             own == [u \in has |-> Unset]
             r == [updates[w] EXCEPT !.step = next, !.own = own]
  <2>1. updates' = [updates EXCEPT ![w] = r]
    BY <1>7 DEF ClearUserTelegramChatID
  <2>2. has \in SUBSET Users
    BY <1>a DEF UpdateType
  <2>3. own \in OwnRows
    BY <2>2, OwnRowsAre
  <2>4. r \in UpdateType
    <3> HIDE DEF own
    <3>1. next \in Steps
      BY DEF Steps
    <3> HIDE DEF next
    <3> QED BY <1>a, <2>3, <3>1 DEF UpdateType
  <2> HIDE DEF r
  <2> QED BY <1>7, <1>a, <2>1, <2>4, OneGoesOn, OnlyMessages DEF ClearUserTelegramChatID
<1>8. ASSUME NEW w \in Updates, SetUserTelegramChatID(w)
      PROVE  LinkingTypeOK'
  <2> DEFINE own == Own(w, updates[w].user, updates[w].chat)
             r == [updates[w] EXCEPT !.step = "commit", !.own = own]
  <2>1. CASE updates' = [updates EXCEPT ![w] = r]
    <3>1. own \in OwnRows
      <4>1. updates[w].user \in Users
        BY <1>8 DEF SetUserTelegramChatID, In, StartsAreFilledIn, Spending
      <4>2. updates[w].own \in OwnRows /\ updates[w].chat \in Chats \cup {Unset}
        BY <1>a DEF UpdateType
      <4> QED BY <4>1, <4>2, OwnIsOfUsers, OwnRowsAre DEF Own
    <3>2. r \in UpdateType
      <4> HIDE DEF own
      <4>1. "commit" \in Steps
        BY DEF Steps
      <4> QED BY <1>a, <3>1, <4>1 DEF UpdateType
    <3> HIDE DEF r
    <3> QED BY <1>8, <1>a, <2>1, <3>2, OneGoesOn, OnlyMessages DEF SetUserTelegramChatID
  <2>2. CASE Reply(w, "error")
    BY <1>8, <2>2, AnsweredIsTyped, OnlyMessages DEF SetUserTelegramChatID, Replies
  <2> QED BY <1>8, <2>1, <2>2 DEF SetUserTelegramChatID
<1>9. ASSUME NEW w \in Updates, CommitUpdate(w)
      PROVE  LinkingTypeOK'
  <2>1. updates' \in [Updates -> UpdateType]
    BY <1>9, AnsweredIsTyped DEF CommitUpdate, Replies
  <2>2. chatOf' \in [Users -> Chats \cup {Unset}]
    BY <1>9, SeenIsTyped DEF CommitUpdate
  <2>3. codes' \in [Codes -> [user : Users \cup {Unset}, used : BOOLEAN]]
    <3>1. codes \in [Codes -> [user : Users \cup {Unset}, used : BOOLEAN]]
      BY DEF LinkingTypeOK
    <3>2. \/ codes' = codes
          \/ codes' = [codes EXCEPT ![updates[w].code].used = TRUE]
      BY <1>9 DEF CommitUpdate
    <3> HIDE DEF LinkingTypeOK
    <3> QED BY <3>1, <3>2
  <2>4. links' \subseteq [by : Updates, code : Codes, user : Users \cup {Unset},
                          chat : Chats \cup {Unset}]
    BY <1>9, <1>a DEF CommitUpdate, LinkingTypeOK, UpdateType, StartsAreFilledIn
  <2> QED BY <2>1, <2>2, <2>3, <2>4 DEF LinkingTypeOK
<1>10. ASSUME NEW w \in Updates, LinkDeadlock(w) \/ LinkFails(w)
       PROVE  LinkingTypeOK'
  BY <1>10, AnsweredIsTyped, OnlyMessages DEF LinkDeadlock, LinkFails, Replies
<1> QED
  BY <1>1, <1>2, <1>3, <1>4, <1>5, <1>6, <1>7, <1>8, <1>9, <1>10 DEF LinkingNext, UpdateStep

-----------------------------------------------------------------------------
(* What the steps of a message change in it.                                 *)

LEMMA AnswerChanges ==
  ASSUME LinkingTypeOK, NEW w \in Updates, NEW reply, Reply(w, reply)
  PROVE  /\ updates'[w].step = "done" /\ updates'[w].reply = reply
         /\ ~ updates'[w].spent /\ DOMAIN updates'[w].own = {}
         /\ updates'[w].op = updates[w].op
         /\ updates'[w].code = updates[w].code
         /\ \A o \in Others(w) : updates'[o] = updates[o]
<1>1. updates \in [Updates -> UpdateType]
  BY DEF LinkingTypeOK
<1> QED BY <1>1, UntouchedIsOwn DEF Reply, UpdateType, Others

\* A good code is spent.
SpendsCode(w) ==
  LET code == codes[updates[w].code]
  IN  /\ SpendingCode(w, updates[w].code) = {}
      /\ code.user # Unset /\ ~ code.used
      /\ updates'[w].step = "look" /\ updates'[w].spent
      /\ updates'[w].user = code.user
      /\ updates'[w].op = updates[w].op
      /\ updates'[w].code = updates[w].code
      /\ updates'[w].chat = updates[w].chat
      /\ updates'[w].own = updates[w].own
      /\ updates'[w].reply = updates[w].reply
      /\ \A o \in Others(w) : updates'[o] = updates[o]

LEMMA SpendingChanges ==
  ASSUME LinkingTypeOK, NEW w \in Updates, UseTelegramLinkCode(w)
  PROVE  /\ updates[w].step = "use" /\ UNCHANGED <<codes, chatOf, links>>
         /\ \/ Reply(w, "invalid")
            \/ SpendsCode(w)
<1>1. updates \in [Updates -> UpdateType]
  BY DEF LinkingTypeOK
<1> DEFINE user == codes[updates[w].code].user
           r == [updates[w] EXCEPT !.step = "look", !.spent = TRUE, !.user = user]
<1>2. \/ Reply(w, "invalid")
      \/ /\ user # Unset /\ ~ codes[updates[w].code].used
         /\ updates' = [updates EXCEPT ![w] = r]
  BY DEF UseTelegramLinkCode
<1>3. /\ r.step = "look" /\ r.spent /\ r.user = user
      /\ r.op = updates[w].op /\ r.code = updates[w].code /\ r.chat = updates[w].chat
      /\ r.own = updates[w].own /\ r.reply = updates[w].reply
  <2> HIDE DEF user
  <2> QED BY <1>1 DEF UpdateType
<1> HIDE DEF r
<1>4. ASSUME updates' = [updates EXCEPT ![w] = r]
      PROVE  updates'[w] = r /\ \A o \in Others(w) : updates'[o] = updates[o]
  BY <1>1, <1>4 DEF Others
<1>5. /\ updates[w].step = "use" /\ UNCHANGED <<codes, chatOf, links>>
      /\ SpendingCode(w, updates[w].code) = {}
  BY DEF UseTelegramLinkCode, In
<1> QED BY <1>2, <1>3, <1>4, <1>5 DEF SpendsCode

\* Those who have the chat of a message.
Has(w) == {u \in updates[w].found : chatOf[u] = updates[w].chat}

\* The other statements leave what is asked for as it is.
KeepsRequest(w) ==
  /\ updates'[w].spent = updates[w].spent
  /\ updates'[w].user = updates[w].user
  /\ updates'[w].op = updates[w].op
  /\ updates'[w].code = updates[w].code
  /\ updates'[w].chat = updates[w].chat
  /\ updates'[w].reply = updates[w].reply
  /\ \A o \in Others(w) : updates'[o] = updates[o]

LEMMA LookingChanges ==
  ASSUME LinkingTypeOK, NEW w \in Updates, LookForChat(w)
  PROVE  /\ updates[w].step = "look" /\ UNCHANGED <<codes, chatOf, links>>
         /\ updates'[w].step = "clear"
         /\ updates'[w].own = updates[w].own
         /\ KeepsRequest(w)
<1> DEFINE found == {u \in Users : chatOf[u] = updates[w].chat}
           r == [updates[w] EXCEPT !.step = "clear", !.found = found]
<1>1. updates \in [Updates -> UpdateType]
  BY DEF LinkingTypeOK
<1>2. updates' = [updates EXCEPT ![w] = r]
  BY DEF LookForChat
<1>3. /\ r.step = "clear" /\ r.own = updates[w].own
      /\ r.spent = updates[w].spent /\ r.user = updates[w].user
      /\ r.op = updates[w].op /\ r.code = updates[w].code
      /\ r.chat = updates[w].chat /\ r.reply = updates[w].reply
  <2> HIDE DEF found
  <2> QED BY <1>1 DEF UpdateType
<1> HIDE DEF r
<1>4. updates[w].step = "look" /\ UNCHANGED <<codes, chatOf, links>>
  BY DEF LookForChat, In
<1> QED BY <1>1, <1>2, <1>3, <1>4 DEF KeepsRequest, Others

LEMMA ClearingChanges ==
  ASSUME LinkingTypeOK, NEW w \in Updates, ClearUserTelegramChatID(w)
  PROVE  /\ updates[w].step = "clear" /\ UNCHANGED <<codes, chatOf, links>>
         /\ updates'[w].step = (IF updates[w].op = "start" THEN "set" ELSE "commit")
         /\ updates'[w].own = [u \in Has(w) |-> Unset]
         /\ KeepsRequest(w)
<1> DEFINE next == IF updates[w].op = "start" THEN "set" ELSE "commit"
           own == [u \in Has(w) |-> Unset]
           r == [updates[w] EXCEPT !.step = next, !.own = own]
<1>1. updates \in [Updates -> UpdateType]
  BY DEF LinkingTypeOK
<1>2. updates' = [updates EXCEPT ![w] = r]
  BY DEF ClearUserTelegramChatID, Has
<1>3. /\ r.step = next /\ r.own = own
      /\ r.spent = updates[w].spent /\ r.user = updates[w].user
      /\ r.op = updates[w].op /\ r.code = updates[w].code
      /\ r.chat = updates[w].chat /\ r.reply = updates[w].reply
  <2> HIDE DEF own, next
  <2> QED BY <1>1 DEF UpdateType
<1> HIDE DEF r
<1>4. updates[w].step = "clear" /\ UNCHANGED <<codes, chatOf, links>>
  BY DEF ClearUserTelegramChatID, In
<1> QED BY <1>1, <1>2, <1>3, <1>4 DEF KeepsRequest, Others

LEMMA GivingChanges ==
  ASSUME LinkingTypeOK, NEW w \in Updates, SetUserTelegramChatID(w), HasChat(w) = {}
  PROVE  /\ updates[w].step = "set" /\ UNCHANGED <<codes, chatOf, links>>
         /\ updates'[w].step = "commit"
         /\ updates'[w].own = Own(w, updates[w].user, updates[w].chat)
         /\ KeepsRequest(w)
<1> DEFINE own == Own(w, updates[w].user, updates[w].chat)
           r == [updates[w] EXCEPT !.step = "commit", !.own = own]
<1>1. updates \in [Updates -> UpdateType]
  BY DEF LinkingTypeOK
<1>2. updates' = [updates EXCEPT ![w] = r]
  BY DEF SetUserTelegramChatID
<1>3. /\ r.step = "commit" /\ r.own = own
      /\ r.spent = updates[w].spent /\ r.user = updates[w].user
      /\ r.op = updates[w].op /\ r.code = updates[w].code
      /\ r.chat = updates[w].chat /\ r.reply = updates[w].reply
  <2> HIDE DEF own
  <2> QED BY <1>1 DEF UpdateType
<1> HIDE DEF r
<1>4. updates[w].step = "set" /\ UNCHANGED <<codes, chatOf, links>>
  BY DEF SetUserTelegramChatID, In
<1> QED BY <1>1, <1>2, <1>3, <1>4 DEF KeepsRequest, Others

LEMMA StartChanges ==
  ASSUME LinkingTypeOK, NEW w \in Updates, StartLink(w) \/ StartUnlink(w)
  PROVE  /\ updates[w].step = "idle" /\ UNCHANGED <<codes, chatOf, links>>
         /\ \/ updates'[w].op = "start" /\ updates'[w].step = "use" /\ updates'[w].code \in Codes
            \/ updates'[w].op = "stop" /\ updates'[w].step = "look"
         /\ ~ updates'[w].spent /\ DOMAIN updates'[w].own = {}
         /\ updates'[w].reply = "none"
         /\ \A o \in Others(w) : updates'[o] = updates[o]
<1>1. updates \in [Updates -> UpdateType]
  BY DEF LinkingTypeOK
<1>2. updates[w].step = "idle" /\ UNCHANGED <<codes, chatOf, links>>
  BY DEF StartLink, StartUnlink, In
<1>3. CASE StartUnlink(w)
  <2>1. PICK chat \in Chats :
          updates' = [updates EXCEPT ![w] =
            [NoUpdate EXCEPT !.op = "stop", !.step = "look", !.chat = chat]]
    BY <1>3 DEF StartUnlink
  <2> DEFINE r == [NoUpdate EXCEPT !.op = "stop", !.step = "look", !.chat = chat]
  <2>2. updates' = [updates EXCEPT ![w] = r]
    BY <2>1
  <2>3. /\ r.op = "stop" /\ r.step = "look"
        /\ ~ r.spent /\ DOMAIN r.own = {} /\ r.reply = "none"
    BY UntouchedIsOwn DEF NoUpdate
  <2> HIDE DEF r
  <2> QED BY <1>1, <1>2, <2>2, <2>3 DEF Others
<1>4. CASE StartLink(w)
  <2>1. PICK c \in Codes, chat \in Chats :
          updates' = [updates EXCEPT ![w] =
            [NoUpdate EXCEPT !.op = "start", !.step = "use", !.code = c, !.chat = chat,
                             !.inTime = c \notin expired]]
    BY <1>4 DEF StartLink
  <2> DEFINE inTime == c \notin expired
             r == [NoUpdate EXCEPT !.op = "start", !.step = "use", !.code = c, !.chat = chat,
                                   !.inTime = inTime]
  <2>2. updates' = [updates EXCEPT ![w] = r]
    BY <2>1
  <2>3. /\ r.op = "start" /\ r.step = "use" /\ r.code = c
        /\ ~ r.spent /\ DOMAIN r.own = {} /\ r.reply = "none"
    <3> HIDE DEF inTime
    <3> QED BY UntouchedIsOwn DEF NoUpdate
  <2> HIDE DEF r
  <2> QED BY <1>1, <1>2, <2>2, <2>3 DEF Others
<1> QED BY <1>3, <1>4

-----------------------------------------------------------------------------
(* Codes                                                                     *)

LEMMA FilledInHolds ==
  ASSUME LinkingTypeOK, StartsAreFilledIn, [LinkingNext]_linkingVars
  PROVE  StartsAreFilledIn'
<1>0. CASE UNCHANGED linkingVars
  BY <1>0 DEF StartsAreFilledIn, Spending, linkingVars
<1>1. ASSUME NEW c \in Codes, NEW u \in Users, CreateLinkInvite(c, u)
      PROVE  StartsAreFilledIn'
  BY <1>1 DEF CreateLinkInvite, StartsAreFilledIn, Spending
<1>2. ASSUME NEW c \in Codes, Expire(c)
      PROVE  StartsAreFilledIn'
  BY <1>2 DEF Expire, StartsAreFilledIn, Spending
<1>3. ASSUME NEW w \in Updates, StartLink(w) \/ StartUnlink(w)
      PROVE  StartsAreFilledIn'
  BY <1>3, StartChanges DEF StartsAreFilledIn, Spending, Others
<1>4. ASSUME NEW w \in Updates, UseTelegramLinkCode(w)
      PROVE  StartsAreFilledIn'
  BY <1>4, SpendingChanges, AnswerChanges
     DEF SpendsCode, LinkingTypeOK, StartsAreFilledIn, Spending, Others
<1>5. ASSUME NEW w \in Updates, LookForChat(w)
      PROVE  StartsAreFilledIn'
  BY <1>5, LookingChanges DEF StartsAreFilledIn, Spending, Others, KeepsRequest
<1>6. ASSUME NEW w \in Updates, ClearUserTelegramChatID(w)
      PROVE  StartsAreFilledIn'
  <2>1. /\ updates[w].step = "clear" /\ KeepsRequest(w)
        /\ updates'[w].step \in {"set", "commit"}
        /\ updates'[w].step = "set" => updates[w].op = "start"
    BY <1>6, ClearingChanges
  <2> QED BY <2>1 DEF StartsAreFilledIn, Spending, Others, KeepsRequest
<1>7. ASSUME NEW w \in Updates, SetUserTelegramChatID(w), HasChat(w) = {}
      PROVE  StartsAreFilledIn'
  BY <1>7, GivingChanges DEF StartsAreFilledIn, Spending, Others, KeepsRequest
<1>8. ASSUME NEW w \in Updates, CommitUpdate(w)
      PROVE  StartsAreFilledIn'
  BY <1>8, AnswerChanges DEF CommitUpdate, StartsAreFilledIn, Spending, Others
<1>9. ASSUME NEW w \in Updates,
             \/ LinkDeadlock(w) \/ LinkFails(w)
             \/ SetUserTelegramChatID(w) /\ HasChat(w) # {}
      PROVE  StartsAreFilledIn'
  BY <1>9, AnswerChanges
     DEF LinkDeadlock, LinkFails, SetUserTelegramChatID, StartsAreFilledIn, Spending, Others
<1> QED
  BY <1>0, <1>1, <1>2, <1>3, <1>4, <1>5, <1>6, <1>7, <1>8, <1>9
     DEF LinkingNext, UpdateStep

CodesInv == SpentIsGood /\ SpentOnce /\ LinksAreBought /\ RepliesAreLast

LEMMA CodesHold ==
  ASSUME LinkingTypeOK, StartsAreFilledIn, CodesInv, [LinkingNext]_linkingVars
  PROVE  CodesInv'
<1> USE DEF LinkingTypeOK
<1>0. CASE UNCHANGED linkingVars
  BY <1>0
     DEF linkingVars, CodesInv, SpentIsGood, SpentOnce, LinksAreBought, RepliesAreLast,
         Spending, In
<1>1. ASSUME NEW c \in Codes, NEW u \in Users, CreateLinkInvite(c, u)
      PROVE  CodesInv'
  <2>5. SpentIsGood'
    BY <1>1 DEF CodesInv, SpentIsGood, Spending, CreateLinkInvite
  <2>6. SpentOnce'
    BY <1>1 DEF CodesInv, SpentOnce, CreateLinkInvite
  <2>7. LinksAreBought'
    BY <1>1 DEF CodesInv, LinksAreBought, CreateLinkInvite
  <2>8. RepliesAreLast'
    BY <1>1 DEF CodesInv, RepliesAreLast, In, CreateLinkInvite
  <2> QED BY <2>5, <2>6, <2>7, <2>8 DEF CodesInv
<1>2. ASSUME NEW c \in Codes, Expire(c)
      PROVE  CodesInv'
  BY <1>2
     DEF Expire, CodesInv, SpentIsGood, SpentOnce, LinksAreBought, RepliesAreLast,
         Spending, In
<1>3. ASSUME NEW w \in Updates, StartLink(w) \/ StartUnlink(w)
      PROVE  CodesInv'
  <2>5. SpentIsGood'
    BY <1>3, StartChanges DEF CodesInv, SpentIsGood, Spending, Others
  <2>6. SpentOnce'
    BY <1>3, StartChanges DEF CodesInv, SpentOnce, Others
  <2>7. LinksAreBought'
    BY <1>3, StartChanges DEF CodesInv, LinksAreBought, RepliesAreLast, Others, In
  <2>8. RepliesAreLast'
    BY <1>3, StartChanges DEF CodesInv, RepliesAreLast, Others, In
  <2> QED BY <2>5, <2>6, <2>7, <2>8 DEF CodesInv
<1>4. ASSUME NEW w \in Updates, UseTelegramLinkCode(w)
      PROVE  CodesInv'
  <2>1. updates[w].step = "use" /\ UNCHANGED <<codes, chatOf, links>>
    BY <1>4, SpendingChanges
  <2>2. CASE Reply(w, "invalid")
    <3>5. SpentIsGood'
      BY <2>1, <2>2, AnswerChanges DEF CodesInv, SpentIsGood, Spending, Others
    <3>6. SpentOnce'
      BY <2>1, <2>2, AnswerChanges DEF CodesInv, SpentOnce, Others
    <3>7. LinksAreBought'
      BY <2>1, <2>2, AnswerChanges DEF CodesInv, LinksAreBought, RepliesAreLast, Others, In
    <3>8. RepliesAreLast'
      BY <2>1, <2>2, AnswerChanges DEF CodesInv, RepliesAreLast, Others, In
    <3> QED BY <3>5, <3>6, <3>7, <3>8 DEF CodesInv
  <2>3. CASE SpendsCode(w)
    <3>5. SpentIsGood'
      BY <2>1, <2>3
         DEF CodesInv, SpentIsGood, StartsAreFilledIn, Spending, Others, SpendsCode
    <3>6. SpentOnce'
      BY <2>1, <2>3 DEF CodesInv, SpentOnce, Others, SpendsCode, SpendingCode
    <3>7. LinksAreBought'
      BY <2>1, <2>3 DEF CodesInv, LinksAreBought, Others, SpendsCode
    <3>8. RepliesAreLast'
      BY <2>1, <2>3 DEF CodesInv, RepliesAreLast, Others, In, SpendsCode
    <3> QED BY <3>5, <3>6, <3>7, <3>8 DEF CodesInv
  <2> QED BY <1>4, <2>2, <2>3, SpendingChanges
<1>5. ASSUME NEW w \in Updates, LookForChat(w)
      PROVE  CodesInv'
  <2>5. SpentIsGood'
    BY <1>5, LookingChanges DEF CodesInv, SpentIsGood, Spending, Others, KeepsRequest
  <2>6. SpentOnce'
    BY <1>5, LookingChanges DEF CodesInv, SpentOnce, Others, KeepsRequest
  <2>7. LinksAreBought'
    BY <1>5, LookingChanges DEF CodesInv, LinksAreBought, Others, KeepsRequest
  <2>8. RepliesAreLast'
    BY <1>5, LookingChanges DEF CodesInv, RepliesAreLast, Others, In, KeepsRequest
  <2> QED BY <2>5, <2>6, <2>7, <2>8 DEF CodesInv
<1>6. ASSUME NEW w \in Updates, ClearUserTelegramChatID(w)
      PROVE  CodesInv'
  <2>1. /\ updates[w].step = "clear" /\ KeepsRequest(w)
        /\ updates'[w].step \in {"set", "commit"}
        /\ UNCHANGED <<codes, chatOf, links>>
    BY <1>6, ClearingChanges
  <2>5. SpentIsGood'
    BY <2>1 DEF CodesInv, SpentIsGood, Spending, Others, KeepsRequest
  <2>6. SpentOnce'
    BY <2>1 DEF CodesInv, SpentOnce, Others, KeepsRequest
  <2>7. LinksAreBought'
    BY <2>1 DEF CodesInv, LinksAreBought, Others, KeepsRequest
  <2>8. RepliesAreLast'
    BY <2>1 DEF CodesInv, RepliesAreLast, Others, In, KeepsRequest
  <2> QED BY <2>5, <2>6, <2>7, <2>8 DEF CodesInv
<1>7. ASSUME NEW w \in Updates, SetUserTelegramChatID(w), HasChat(w) = {}
      PROVE  CodesInv'
  <2>1. /\ updates[w].step = "set" /\ KeepsRequest(w)
        /\ updates'[w].step = "commit"
        /\ UNCHANGED <<codes, chatOf, links>>
    BY <1>7, GivingChanges
  <2>5. SpentIsGood'
    BY <2>1 DEF CodesInv, SpentIsGood, Spending, Others, KeepsRequest
  <2>6. SpentOnce'
    BY <2>1 DEF CodesInv, SpentOnce, Others, KeepsRequest
  <2>7. LinksAreBought'
    BY <2>1 DEF CodesInv, LinksAreBought, Others, KeepsRequest
  <2>8. RepliesAreLast'
    BY <2>1 DEF CodesInv, RepliesAreLast, Others, In, KeepsRequest
  <2> QED BY <2>5, <2>6, <2>7, <2>8 DEF CodesInv
<1>8. ASSUME NEW w \in Updates, CommitUpdate(w)
      PROVE  CodesInv'
  <2> DEFINE c == updates[w].code
             l == [by |-> w, code |-> c, user |-> updates[w].user, chat |-> updates[w].chat]
  <2>1. /\ updates[w].step = "commit" /\ updates'[w].step = "done"
        /\ updates'[w].reply = IF updates[w].op = "start" THEN "linked" ELSE "unlinked"
        /\ ~ updates'[w].spent
        /\ updates'[w].op = updates[w].op
        /\ \A o \in Others(w) : updates'[o] = updates[o]
    BY <1>8, AnswerChanges DEF CommitUpdate, In
  <2>2. CASE updates[w].op = "start"
    <3>1. codes' = [codes EXCEPT ![c].used = TRUE] /\ links' = links \cup {l}
      BY <1>8, <2>2 DEF CommitUpdate
    <3>2. c \in Codes /\ ~ codes[c].used /\ codes[c].user = updates[w].user
          /\ codes[c].user # Unset /\ updates[w].spent
      BY <2>1, <2>2 DEF CodesInv, SpentIsGood, StartsAreFilledIn, Spending
    <3>3. l.by = w /\ l.code = c /\ l.user = updates[w].user /\ l \in links'
      BY <3>1
    <3> HIDE DEF l, c
    <3>4. /\ codes'[c].used /\ codes'[c].user = codes[c].user
          /\ \A d \in Codes \ {c} : codes'[d] = codes[d]
      BY <3>1, <3>2
    <3>5. SpentIsGood'
      BY <2>1, <2>2, <3>1, <3>2, <3>3, <3>4
         DEF CodesInv, SpentIsGood, SpentOnce, Spending, Others, c
    <3>6. SpentOnce'
      BY <2>1, <2>2, <3>1, <3>2, <3>3, <3>4 DEF CodesInv, SpentOnce, Others
    <3>7. LinksAreBought'
      BY <2>1, <2>2, <3>1, <3>2, <3>3, <3>4 DEF CodesInv, LinksAreBought, Others
    <3>8. RepliesAreLast'
      BY <2>1, <2>2, <3>1, <3>2, <3>3, <3>4 DEF CodesInv, RepliesAreLast, Others, In
    <3> QED BY <3>5, <3>6, <3>7, <3>8 DEF CodesInv
  <2>3. CASE updates[w].op # "start"
    <3>1. codes' = codes /\ links' = links
      BY <1>8, <2>3 DEF CommitUpdate
    <3>5. SpentIsGood'
      BY <2>1, <2>3, <3>1 DEF CodesInv, SpentIsGood, Spending, Others
    <3>6. SpentOnce'
      BY <2>1, <2>3, <3>1 DEF CodesInv, SpentOnce, Others
    <3>7. LinksAreBought'
      BY <2>1, <2>3, <3>1 DEF CodesInv, LinksAreBought, RepliesAreLast, Others, In
    <3>8. RepliesAreLast'
      BY <2>1, <2>3, <3>1 DEF CodesInv, RepliesAreLast, Others, In
    <3> QED BY <3>5, <3>6, <3>7, <3>8 DEF CodesInv
  <2> QED BY <2>2, <2>3
<1>9. ASSUME NEW w \in Updates,
             \/ LinkDeadlock(w) \/ LinkFails(w)
             \/ SetUserTelegramChatID(w) /\ HasChat(w) # {}
      PROVE  CodesInv'
  <2>1. Reply(w, "error") /\ UNCHANGED <<codes, chatOf, links>>
    BY <1>9 DEF LinkDeadlock, LinkFails, SetUserTelegramChatID
  <2>2. updates[w].step \notin {"idle", "done"}
    BY <1>9 DEF LinkDeadlock, LinkFails, SetUserTelegramChatID, WaitsOn, In
  <2>5. SpentIsGood'
    BY <2>1, <2>2, AnswerChanges DEF CodesInv, SpentIsGood, Spending, Others
  <2>6. SpentOnce'
    BY <2>1, <2>2, AnswerChanges DEF CodesInv, SpentOnce, Others
  <2>7. LinksAreBought'
    BY <2>1, <2>2, AnswerChanges DEF CodesInv, LinksAreBought, RepliesAreLast, Others, In
  <2>8. RepliesAreLast'
    BY <2>1, <2>2, AnswerChanges DEF CodesInv, RepliesAreLast, Others, In
  <2> QED BY <2>5, <2>6, <2>7, <2>8 DEF CodesInv
<1> QED
  BY <1>0, <1>1, <1>2, <1>3, <1>4, <1>5, <1>6, <1>7, <1>8, <1>9
     DEF LinkingNext, UpdateStep

-----------------------------------------------------------------------------
(* Chats                                                                     *)

ChatsInv == RowsAreLocked /\ OneChatGiven /\ GivenChatIsFree /\ ChatsAreSingle

\* A transaction that has written nothing, or drops what it wrote.
LEMMA DroppingKeeps ==
  ASSUME LinkingTypeOK, ChatsInv, NEW w \in Updates,
         DOMAIN updates'[w].own = {}, chatOf' = chatOf,
         \A o \in Others(w) : updates'[o] = updates[o]
  PROVE  ChatsInv'
<1> USE DEF LinkingTypeOK
<1>5. RowsAreLocked'
  BY DEF ChatsInv, RowsAreLocked, Others
<1>6. OneChatGiven'
  BY DEF ChatsInv, OneChatGiven, Others, In
<1>7. GivenChatIsFree'
  BY DEF ChatsInv, GivenChatIsFree, ChatSeen, Others
<1>8. ChatsAreSingle'
  BY DEF ChatsInv, ChatsAreSingle
<1> QED BY <1>5, <1>6, <1>7, <1>8 DEF ChatsInv

LEMMA ChatsHold ==
  ASSUME LinkingTypeOK, StartsAreFilledIn, ChatsInv, [LinkingNext]_linkingVars
  PROVE  ChatsInv'
<1>0. CASE UNCHANGED linkingVars
  BY <1>0
     DEF linkingVars, In, ChatsInv, RowsAreLocked, OneChatGiven, GivenChatIsFree,
         ChatsAreSingle, ChatSeen
<1>1. ASSUME NEW c \in Codes, NEW u \in Users, CreateLinkInvite(c, u)
      PROVE  ChatsInv'
  BY <1>1
     DEF CreateLinkInvite, In, ChatsInv, RowsAreLocked, OneChatGiven, GivenChatIsFree,
         ChatsAreSingle, ChatSeen
<1>2. ASSUME NEW c \in Codes, Expire(c)
      PROVE  ChatsInv'
  BY <1>2
     DEF Expire, In, ChatsInv, RowsAreLocked, OneChatGiven, GivenChatIsFree,
         ChatsAreSingle, ChatSeen
<1>3. ASSUME NEW w \in Updates, StartLink(w) \/ StartUnlink(w)
      PROVE  ChatsInv'
  BY <1>3, DroppingKeeps, StartChanges
<1>4. ASSUME NEW w \in Updates, UseTelegramLinkCode(w)
      PROVE  ChatsInv'
  <2>1. updates[w].step = "use" /\ chatOf' = chatOf /\ DOMAIN updates[w].own = {}
    BY <1>4, SpendingChanges DEF ChatsInv, RowsAreLocked
  <2>2. CASE Reply(w, "invalid")
    BY <2>1, <2>2, AnswerChanges, DroppingKeeps
  <2>3. CASE SpendsCode(w)
    BY <2>1, <2>3, DroppingKeeps DEF SpendsCode
  <2> QED BY <1>4, <2>2, <2>3, SpendingChanges
<1>5. ASSUME NEW w \in Updates, LookForChat(w)
      PROVE  ChatsInv'
  <2>1. updates[w].step = "look" /\ chatOf' = chatOf /\ updates'[w].own = updates[w].own
    BY <1>5, LookingChanges
  <2>2. DOMAIN updates[w].own = {}
    BY <2>1 DEF ChatsInv, RowsAreLocked
  <2> QED BY <1>5, <2>1, <2>2, LookingChanges, DroppingKeeps DEF KeepsRequest
<1>6. ASSUME NEW w \in Updates, ClearUserTelegramChatID(w)
      PROVE  ChatsInv'
  <2>1. /\ updates[w].step = "clear" /\ updates'[w].step \in {"set", "commit"}
        /\ chatOf' = chatOf /\ \A o \in Others(w) : updates'[o] = updates[o]
        /\ updates'[w].own = [u \in Has(w) |-> Unset]
    BY <1>6, ClearingChanges DEF KeepsRequest
  <2>2. DOMAIN updates'[w].own = Has(w) /\ \A u \in Has(w) : updates'[w].own[u] = Unset
    BY <2>1
  <2>3. \A o \in Others(w) : DOMAIN updates[o].own \cap Has(w) = {}
    BY <1>6 DEF ClearUserTelegramChatID, ChangingUser, Has, Others
  <2>5. RowsAreLocked'
    BY <2>1, <2>2, <2>3 DEF ChatsInv, RowsAreLocked, Others
  <2>6. OneChatGiven'
    BY <2>1, <2>2, <2>3 DEF ChatsInv, OneChatGiven, Others, In
  <2>7. GivenChatIsFree'
    BY <2>1, <2>2, <2>3 DEF ChatsInv, GivenChatIsFree, ChatSeen, Others
  <2>8. ChatsAreSingle'
    BY <2>1, <2>2, <2>3 DEF ChatsInv, ChatsAreSingle
  <2> QED BY <2>5, <2>6, <2>7, <2>8 DEF ChatsInv
<1>7. ASSUME NEW w \in Updates, SetUserTelegramChatID(w), HasChat(w) = {}
      PROVE  ChatsInv'
  <2> DEFINE user == updates[w].user
             chat == updates[w].chat
  <2>1. /\ updates[w].step = "set" /\ updates[w].op = "start"
        /\ updates'[w].step = "commit" /\ updates'[w].op = updates[w].op
        /\ updates'[w].user = user /\ updates'[w].chat = chat
        /\ chatOf' = chatOf /\ \A o \in Others(w) : updates'[o] = updates[o]
        /\ updates'[w].own = Own(w, user, chat)
    BY <1>7, GivingChanges DEF KeepsRequest, StartsAreFilledIn
  <2>2. /\ DOMAIN updates'[w].own = DOMAIN updates[w].own \cup {user}
        /\ updates'[w].own[user] = chat
        /\ \A u \in DOMAIN updates[w].own \ {user} : updates'[w].own[u] = updates[w].own[u]
    BY <2>1 DEF Own
  <2>3. \A o \in Others(w) : user \notin DOMAIN updates[o].own
    BY <1>7 DEF SetUserTelegramChatID, ChangingUser, Others
  <2>4. \A o \in Others(w) : \A u \in DOMAIN updates[o].own : updates[o].own[u] # chat
    BY <1>7 DEF SetUserTelegramChatID, MovingChat, Others
  <2>9. \A u \in Users \ {user} : ChatSeen(w, u) # chat
    BY <1>7 DEF HasChat
  <2>5. RowsAreLocked'
    BY <2>1, <2>2, <2>3, <2>4, <2>9 DEF ChatsInv, RowsAreLocked, Others
  <2>6. OneChatGiven'
    BY <2>1, <2>2, <2>3, <2>4, <2>9 DEF ChatsInv, OneChatGiven, Others, In
  <2>7. GivenChatIsFree'
    BY <2>1, <2>2, <2>3, <2>4, <2>9
       DEF ChatsInv, OneChatGiven, GivenChatIsFree, ChatSeen, Others
  <2>8. ChatsAreSingle'
    BY <2>1, <2>2, <2>3, <2>4, <2>9 DEF ChatsInv, ChatsAreSingle
  <2> QED BY <2>5, <2>6, <2>7, <2>8 DEF ChatsInv
<1>8. ASSUME NEW w \in Updates, CommitUpdate(w)
      PROVE  ChatsInv'
  <2>1. /\ updates[w].step = "commit" /\ updates'[w].step = "done"
        /\ DOMAIN updates'[w].own = {}
        /\ \A o \in Others(w) : updates'[o] = updates[o]
        /\ chatOf' = [u \in Users |-> ChatSeen(w, u)]
    BY <1>8, AnswerChanges DEF CommitUpdate, In
  <2>5. RowsAreLocked'
    BY <2>1 DEF ChatsInv, RowsAreLocked, Others
  <2>6. OneChatGiven'
    BY <2>1 DEF ChatsInv, OneChatGiven, Others, In
  <2>7. GivenChatIsFree'
    BY <2>1 DEF ChatsInv, GivenChatIsFree, ChatSeen, Others
  <2>8. ChatsAreSingle'
    BY <2>1 DEF ChatsInv, GivenChatIsFree, ChatsAreSingle, ChatSeen
  <2> QED BY <2>5, <2>6, <2>7, <2>8 DEF ChatsInv
<1>9. ASSUME NEW w \in Updates,
             \/ LinkDeadlock(w) \/ LinkFails(w)
             \/ SetUserTelegramChatID(w) /\ HasChat(w) # {}
      PROVE  ChatsInv'
  <2>1. Reply(w, "error") /\ UNCHANGED <<codes, chatOf, links>>
    BY <1>9 DEF LinkDeadlock, LinkFails, SetUserTelegramChatID
  <2> QED BY <2>1, AnswerChanges, DroppingKeeps
<1> QED
  BY <1>0, <1>1, <1>2, <1>3, <1>4, <1>5, <1>6, <1>7, <1>8, <1>9
     DEF LinkingNext, UpdateStep

-----------------------------------------------------------------------------
(* Theorems                                                                  *)

LEMMA LinkingStarts == LinkingInit => LinkingInv
<1> SUFFICES ASSUME LinkingInit
             PROVE  LinkingInv
  OBVIOUS
<1>1. \A w \in Updates : updates[w] = NoUpdate /\ DOMAIN updates[w].own = {}
  BY UntouchedIsOwn DEF LinkingInit, NoUpdate
<1>2. LinkingTypeOK
  BY NewIsTyped DEF LinkingInit, LinkingTypeOK
<1>3. StartsAreFilledIn
  BY <1>1 DEF StartsAreFilledIn, Spending, NoUpdate
<1>4. SpentIsGood /\ SpentOnce
  BY <1>1 DEF SpentIsGood, SpentOnce, Spending, NoUpdate
<1>5. LinksAreBought /\ RepliesAreLast
  BY <1>1 DEF LinkingInit, LinksAreBought, RepliesAreLast, NoUpdate, In
<1>6. RowsAreLocked /\ OneChatGiven /\ GivenChatIsFree
  BY <1>1 DEF RowsAreLocked, OneChatGiven, GivenChatIsFree
<1>7. ChatsAreSingle
  BY DEF LinkingInit, ChatsAreSingle
<1> QED BY <1>2, <1>3, <1>4, <1>5, <1>6, <1>7 DEF LinkingInv

(* What makes the links right holds in every state: what has been spent was   *)
(* good, by one message; the rows of users are changed by one transaction at  *)
(* a time; a chat that is being given is nobody else's (notify/link.go,       *)
(* LinkChat and UnlinkChat).                                                  *)
THEOREM LinkingInvariant == LinkingSpec => []LinkingInv
<1>1. LinkingInv /\ [LinkingNext]_linkingVars => LinkingInv'
  BY TypesHold, FilledInHolds, CodesHold, ChatsHold
     DEF LinkingInv, CodesInv, ChatsInv
<1> QED BY <1>1, LinkingStarts, PTL DEF LinkingSpec

(* A code buys one link, to the user it was given to, whatever messages bring *)
(* it at once; the bot says that a chat is linked only when it is; a chat has *)
(* one user (notify/link.go, LinkChat; webhook.go, handleStart).              *)
THEOREM CodesAreBoughtOnce == LinkingSpec => []CodesBuyOneLink
<1>1. LinkingInv => CodesBuyOneLink
  <2> SUFFICES ASSUME LinkingInv
               PROVE  CodesBuyOneLink
    OBVIOUS
  <2>1. ASSUME NEW c \in Codes
        PROVE  LET bought == {l \in links : l.code = c}
               IN  /\ Cardinality(bought) = IF codes[c].used THEN 1 ELSE 0
                   /\ \A l \in bought : l.user = codes[c].user
    <3> DEFINE bought == {l \in links : l.code = c}
    <3>1. CASE codes[c].used
      <4>1. PICK l \in links : l.code = c
        BY <3>1 DEF LinkingInv, LinksAreBought
      <4>2. bought = {l}
        BY <4>1 DEF LinkingInv, LinksAreBought
      <4> QED BY <3>1, <4>2, FS_Singleton DEF LinkingInv, LinksAreBought
    <3>2. CASE ~codes[c].used
      <4>1. bought = {}
        BY <3>2 DEF LinkingInv, LinksAreBought
      <4> QED BY <3>2, <4>1, FS_EmptySet
    <3> QED BY <3>1, <3>2
  <2>2. \A w \in Updates : updates[w].reply = "linked" <=> \E l \in links : l.by = w
    BY DEF LinkingInv, LinkingTypeOK, LinksAreBought, RepliesAreLast
  <2> QED BY <2>1, <2>2 DEF CodesBuyOneLink, LinkingInv, ChatsAreSingle
<1> QED BY <1>1, LinkingInvariant, PTL

-----------------------------------------------------------------------------
(* The limiter of attempts to sign in.                                      *)

SignInSteps == {"idle", "address", "email", "user", "session", "resolve",
                "reset address", "reset email", "done"}

SignInReplies == {"none", "limited", "invalid", "error", "in", "out"}

AccessTypeOK ==
  /\ now \in Times
  /\ marks \in [Keys -> [Times -> Nat]]
  /\ admitted \in [Keys -> [Times -> Nat]]
  /\ attempts \in [Attempts -> [address : Addresses, email : Emails,
                                step : SignInSteps, reply : SignInReplies]]

\* What was let in within the window that ends now has left its mark, unless the
\* marks were taken away, and with them what was let in; nothing is yet to come.
MarksCoverAdmissions ==
  \A k \in Keys, t \in Times :
    /\ InWindow(t, now) => admitted[k][t] <= marks[k][t]
    /\ t > now => admitted[k][t] = 0

\* In whatever window, the limit is kept.
WindowsAreBounded ==
  \A k \in Keys, t \in Times : CountIn(admitted[k], t) <= LoginLimit

\* An attempt that got as far as its session has it, until it signs out.
SessionFollows(a) ==
  /\ (attempts[a].step # "done") <=> (attempts[a].reply = "none")
  /\ attempts[a].step \in {"idle", "address", "email", "user", "session"} =>
       a \notin sessions
  /\ attempts[a].step \in {"resolve", "reset address", "reset email"} =>
       a \in sessions
  /\ attempts[a].reply = "in" => a \in sessions
  /\ attempts[a].reply \in {"limited", "invalid", "out"} => a \notin sessions

\* AdmissionsAreBounded alone says nothing of the marks, by which the limiter
\* counts, nor of the attempts under way.
AccessInv ==
  /\ AccessTypeOK
  /\ MarksCoverAdmissions /\ WindowsAreBounded
  /\ \A a \in Attempts : SessionFollows(a)

\* The times a window that ends at t is made of.
Window(t) == {u \in Times : InWindow(u, t)}

LEMMA WindowIsFinite ==
  ASSUME NEW t
  PROVE  IsFiniteSet(Window(t)) /\ Window(t) \in SUBSET Times
<1>1. IsFiniteSet(Times)
  BY AccessAssumption, FS_Interval DEF Times
<1>2. Window(t) \subseteq Times
  BY DEF Window
<1> QED BY <1>1, <1>2, FS_Subset

LEMMA CountIsSum ==
  ASSUME NEW log, NEW t
  PROVE  CountIn(log, t) = SumOver(log, Window(t))
  BY DEF CountIn, SumOver, Window

\* A count depends on what is in the window, and is smaller where there is less.
LEMMA CountOfSame ==
  ASSUME NEW log, NEW other, NEW t, \A u \in Window(t) : log[u] = other[u]
  PROVE  CountIn(log, t) = CountIn(other, t)
  BY CountIsSum, WindowIsFinite, SumSame

\* A log without an entry counts nothing.
LEMMA NothingCounts ==
  ASSUME NEW t \in Times
  PROVE  CountIn(NoMarks, t) = 0
<1>1. \A u \in Window(t) : NoMarks[u] = 0
  BY DEF NoMarks, Window
<1>2. SumOver(NoMarks, Window(t)) = SumOver(NoMarks, {})
  BY <1>1, WindowIsFinite, SumOfTheRest
<1> QED BY <1>2, CountIsSum, SumEmpty

\* If what is counted now covers a log that does not reach beyond now, then no
\* window with now in it holds more of the log.
LEMMA LaterWindows ==
  ASSUME NEW log \in [Times -> Nat], NEW cover \in [Times -> Nat],
         NEW n \in Times, NEW t \in Times, InWindow(n, t),
         \A u \in Times : /\ InWindow(u, n) => log[u] <= cover[u]
                          /\ u > n => log[u] = 0
  PROVE  CountIn(log, t) <= CountIn(cover, n)
<1> DEFINE W == Window(t)
           C == {u \in W : u <= n}
<1>0. Times \subseteq Int /\ LoginWindow \in Int
  BY AccessAssumption DEF Times
<1>1. C \subseteq Window(n)
  <2>1. ASSUME NEW u \in C PROVE u \in Window(n)
    <3>1. u \in Times /\ t - LoginWindow < u /\ u <= n /\ n <= t
      BY DEF Window, InWindow
    <3> QED BY <1>0, <3>1 DEF Window, InWindow
  <2> QED BY <2>1
<1>2. IsFiniteSet(W) /\ W \in SUBSET Times /\ C \in SUBSET W
  BY WindowIsFinite
<1>3. \A u \in W : log[u] \in Int
  BY <1>2
<1>4. \A u \in W \ C : log[u] = 0
  <2>1. ASSUME NEW u \in W \ C PROVE log[u] = 0
    <3>1. u \in Times /\ ~ (u <= n)
      BY <1>2
    <3>2. u \in Int /\ n \in Int
      BY <1>0, <3>1
    <3> QED BY <3>1, <3>2
  <2> QED BY <2>1
<1>5. SumOver(log, W) = SumOver(log, C)
  <2> HIDE DEF W, C
  <2> QED BY <1>2, <1>3, <1>4, SumOfTheRest
<1>6. \A u \in Window(n) : log[u] \in Int /\ cover[u] \in Nat
  BY DEF Window
<1>7. \A u \in C : log[u] <= cover[u]
  BY <1>1 DEF Window
<1>8. SumOver(log, C) <= SumOver(cover, Window(n))
  <2> HIDE DEF W, C
  <2> QED BY <1>1, <1>6, <1>7, WindowIsFinite, SumMonotone
<1> QED BY <1>5, <1>8, CountIsSum

\* What the key of an attempt is, and what is known of a log of marks.
LEMMA KeyOfAttempt ==
  ASSUME AccessTypeOK, NEW a \in Attempts, NEW step
  PROVE  KeyOf(a, step) \in Keys
  BY DEF KeyOf, Keys, AccessTypeOK

LEMMA MarkedLog ==
  ASSUME AccessTypeOK, NEW k \in Keys
  PROVE  /\ Marked(k) \in [Times -> Nat]
         /\ \A t \in Times : InWindow(t, now) =>
              Marked(k)[t] = IF t = now THEN marks[k][t] + 1 ELSE marks[k][t]
  BY DEF AccessTypeOK, Marked

\* The present is in the window that ends now, and the only time in it that was
\* not in the window before.
LEMMA WindowsMeet ==
  /\ \A t \in Times : InWindow(t, t)
  /\ \A t \in Times, n \in Times : InWindow(t, n + 1) /\ t # n + 1 => InWindow(t, n)
  BY AccessAssumption DEF Times, InWindow

\* A key lets one more in when all it has marked is within the limit: it keeps
\* what it lets in covered by its marks, and every window within the limit.
LEMMA LetIn ==
  ASSUME AccessInv, NEW k \in Keys, CountIn(Marked(k), now) <= LoginLimit,
         marks' = [marks EXCEPT ![k] = Marked(k)],
         admitted' = [admitted EXCEPT ![k][now] = @ + 1],
         now' = now
  PROVE  MarksCoverAdmissions' /\ WindowsAreBounded'
<1>1. now \in Times /\ now \in Int /\ LoginLimit \in Nat
  BY AccessAssumption DEF AccessInv, AccessTypeOK, Times
<1> DEFINE log == [admitted[k] EXCEPT ![now] = @ + 1]
<1>2. /\ admitted' = [admitted EXCEPT ![k] = log]
      /\ admitted[k] \in [Times -> Nat] /\ marks[k] \in [Times -> Nat]
      /\ log \in [Times -> Nat]
      /\ \A t \in Times : log[t] = IF t = now THEN admitted[k][t] + 1
                                               ELSE admitted[k][t]
  BY <1>1 DEF AccessInv, AccessTypeOK
<1>3. /\ admitted'[k] = log /\ marks'[k] = Marked(k)
      /\ \A j \in Keys \ {k} : admitted'[j] = admitted[j] /\ marks'[j] = marks[j]
  <2> HIDE DEF log
  <2> QED BY <1>2 DEF AccessInv, AccessTypeOK
<1> HIDE DEF log
<1>4. /\ Marked(k) \in [Times -> Nat]
      /\ \A t \in Times : InWindow(t, now) =>
           Marked(k)[t] = IF t = now THEN marks[k][t] + 1 ELSE marks[k][t]
  BY MarkedLog DEF AccessInv
<1>5. ASSUME NEW t \in Times
      PROVE  /\ InWindow(t, now) => log[t] <= Marked(k)[t]
             /\ t > now => log[t] = 0
  <2>1. /\ InWindow(t, now) => admitted[k][t] <= marks[k][t]
        /\ t > now => admitted[k][t] = 0
    BY DEF AccessInv, MarksCoverAdmissions
  <2>2. admitted[k][t] \in Nat /\ marks[k][t] \in Nat
    BY <1>2
  <2>3. log[t] = IF t = now THEN admitted[k][t] + 1 ELSE admitted[k][t]
    BY <1>2
  <2>4. InWindow(t, now) =>
           Marked(k)[t] = IF t = now THEN marks[k][t] + 1 ELSE marks[k][t]
    BY <1>4
  <2>5. t > now => t # now
    BY <1>1
  <2> QED BY <2>1, <2>2, <2>3, <2>4, <2>5
<1>6. MarksCoverAdmissions'
  <2>1. ASSUME NEW j \in Keys, NEW t \in Times
        PROVE  /\ InWindow(t, now) => admitted'[j][t] <= marks'[j][t]
               /\ t > now => admitted'[j][t] = 0
    BY <1>3, <1>5 DEF AccessInv, MarksCoverAdmissions
  <2> QED BY <2>1 DEF MarksCoverAdmissions
<1>7. ASSUME NEW t \in Times PROVE CountIn(log, t) <= LoginLimit
  <2>1. CASE InWindow(now, t)
    <3>1. CountIn(log, t) <= CountIn(Marked(k), now)
      BY <1>1, <1>2, <1>4, <1>5, <2>1, LaterWindows
    <3>2. CountIn(log, t) \in Int /\ CountIn(Marked(k), now) \in Int
      <4>1. \A u \in Window(t) : log[u] \in Int
        BY <1>2 DEF Window
      <4>2. \A u \in Window(now) : Marked(k)[u] \in Int
        BY <1>4 DEF Window
      <4> QED BY <4>1, <4>2, WindowIsFinite, SumTakeOut, CountIsSum
    <3> QED BY <1>1, <3>1, <3>2
  <2>2. CASE ~ InWindow(now, t)
    <3>1. \A u \in Window(t) : log[u] = admitted[k][u]
      BY <1>2, <2>2 DEF Window
    <3>2. CountIn(log, t) = CountIn(admitted[k], t)
      BY <3>1, CountOfSame
    <3> QED BY <3>2 DEF AccessInv, WindowsAreBounded
  <2> QED BY <2>1, <2>2
<1>8. WindowsAreBounded'
  <2>1. ASSUME NEW j \in Keys, NEW t \in Times
        PROVE  CountIn(admitted'[j], t) <= LoginLimit
    BY <1>3, <1>7 DEF AccessInv, WindowsAreBounded
  <2> QED BY <2>1 DEF WindowsAreBounded
<1> QED BY <1>6, <1>8

\* What was let in stays covered and bounded when only marks are added.
LEMMA MarkOnly ==
  ASSUME AccessInv, NEW k \in Keys,
         UNCHANGED marks \/ marks' = [marks EXCEPT ![k] = Marked(k)],
         UNCHANGED <<now, admitted>>
  PROVE  MarksCoverAdmissions' /\ WindowsAreBounded'
<1>1. ASSUME NEW j \in Keys, NEW t \in Times
      PROVE  /\ InWindow(t, now) => admitted[j][t] <= marks'[j][t]
             /\ t > now => admitted[j][t] = 0
  <2>1. /\ InWindow(t, now) => admitted[j][t] <= marks[j][t]
        /\ t > now => admitted[j][t] = 0
    BY DEF AccessInv, MarksCoverAdmissions
  <2>2. admitted[j][t] \in Nat /\ marks[j][t] \in Nat
    BY DEF AccessInv, AccessTypeOK
  <2>3. \/ marks'[j] = marks[j]
        \/ j = k /\ marks'[j] = Marked(k)
    BY DEF AccessInv, AccessTypeOK
  <2>4. InWindow(t, now) => marks[j][t] <= marks'[j][t] /\ marks'[j][t] \in Nat
    BY <2>2, <2>3, MarkedLog DEF AccessInv
  <2> QED BY <2>1, <2>2, <2>4
<1> QED BY <1>1 DEF AccessInv, MarksCoverAdmissions, WindowsAreBounded

-----------------------------------------------------------------------------
(* One lemma per kind of step.                                              *)

AttemptType == [address : Addresses, email : Emails,
                step : SignInSteps, reply : SignInReplies]

\* The attempts after one of them has gone on, or was answered.
LEMMA AttemptGoesOn ==
  ASSUME AccessTypeOK, NEW a \in Attempts, NEW s \in SignInSteps, Proceed(a, s)
  PROVE  /\ attempts' \in [Attempts -> AttemptType]
         /\ attempts'[a].step = s /\ attempts'[a].reply = attempts[a].reply
         /\ \A o \in Attempts \ {a} : attempts'[o] = attempts[o]
  BY DEF AccessTypeOK, AttemptType, Proceed

LEMMA AttemptEnds ==
  ASSUME AccessTypeOK, NEW a \in Attempts, NEW r \in SignInReplies, Finish(a, r)
  PROVE  /\ attempts' \in [Attempts -> AttemptType]
         /\ attempts'[a].step = "done" /\ attempts'[a].reply = r
         /\ \A o \in Attempts \ {a} : attempts'[o] = attempts[o]
<1>1. "done" \in SignInSteps
  BY DEF SignInSteps
<1> QED BY <1>1 DEF AccessTypeOK, AttemptType, Finish

\* An attempt that goes on leaves the others where they are.
LEMMA OthersFollow ==
  ASSUME AccessInv, NEW a \in Attempts, SessionFollows(a)',
         \A o \in Attempts \ {a} : /\ attempts'[o] = attempts[o]
                                   /\ (o \in sessions') <=> (o \in sessions)
  PROVE  \A o \in Attempts : SessionFollows(o)'
  BY DEF AccessInv, SessionFollows

\* A step that does not touch the limiter.
LEMMA LimiterRests ==
  ASSUME AccessInv, UNCHANGED <<now, marks, admitted>>
  PROVE  MarksCoverAdmissions' /\ WindowsAreBounded'
  BY DEF AccessInv, MarksCoverAdmissions, WindowsAreBounded

LEMMA ArriveKeeps ==
  ASSUME AccessInv, NEW a \in Attempts, Arrive(a)
  PROVE  AccessInv'
<1>1. /\ attempts' \in [Attempts -> AttemptType]
      /\ attempts'[a].step = "address" /\ attempts'[a].reply = attempts[a].reply
      /\ \A o \in Attempts \ {a} : attempts'[o] = attempts[o]
  <2>1. "address" \in SignInSteps
    BY DEF SignInSteps
  <2> QED BY <2>1, AttemptGoesOn DEF AccessInv, Arrive
<1>2. AccessTypeOK'
  BY <1>1 DEF AccessInv, AccessTypeOK, Arrive, AttemptType
<1>3. SessionFollows(a)'
  BY <1>1 DEF AccessInv, SessionFollows, Arrive, Is
<1>4. \A o \in Attempts : SessionFollows(o)'
  BY <1>1, <1>3, OthersFollow DEF Arrive
<1> QED BY <1>2, <1>4, LimiterRests DEF AccessInv, Arrive

\* A key that lets nobody in any more: the attempt ends; or it goes on.
LEMMA AllowMoves ==
  ASSUME AccessInv, NEW a \in Attempts, NEW step \in {"address", "email"}, Is(a, step),
         Finish(a, "limited") \/ Proceed(a, After(step)), sessions' = sessions
  PROVE  /\ attempts' \in [Attempts -> AttemptType]
         /\ \A o \in Attempts : SessionFollows(o)'
<1>1. After(step) \in {"email", "user"} /\ After(step) \in SignInSteps
  BY DEF After, SignInSteps
<1>2. "limited" \in SignInReplies
  BY DEF SignInReplies
<1>3. attempts[a].reply = "none" /\ a \notin sessions
  BY DEF AccessInv, SessionFollows, Is
<1>4. /\ attempts' \in [Attempts -> AttemptType]
      /\ \/ attempts'[a].step = "done" /\ attempts'[a].reply = "limited"
         \/ attempts'[a].step \in {"email", "user"} /\ attempts'[a].reply = "none"
      /\ \A o \in Attempts \ {a} : attempts'[o] = attempts[o]
  BY <1>1, <1>2, <1>3, AttemptGoesOn, AttemptEnds DEF AccessInv
<1>5. SessionFollows(a)'
  BY <1>3, <1>4 DEF SessionFollows
<1> QED BY <1>4, <1>5, OthersFollow

LEMMA AllowKeeps ==
  ASSUME AccessInv, NEW a \in Attempts, NEW step \in {"address", "email"}, Allow(a, step)
  PROVE  AccessInv'
<1>1. PICK k : k = KeyOf(a, step)
  OBVIOUS
<1>2. k \in Keys /\ AccessTypeOK
  BY <1>1, KeyOfAttempt DEF AccessInv
<1>3. /\ marks' = [marks EXCEPT ![k] = Marked(k)] /\ UNCHANGED <<now, sessions>>
      /\ \/ Finish(a, "limited") /\ UNCHANGED admitted
         \/ /\ ~ (CountIn(Marked(k), now) > LoginLimit) /\ Proceed(a, After(step))
            /\ admitted' = [admitted EXCEPT ![k][now] = @ + 1]
  BY <1>1 DEF Allow
<1>4. /\ attempts' \in [Attempts -> AttemptType]
      /\ \A o \in Attempts : SessionFollows(o)'
  BY <1>3, AllowMoves DEF Allow
<1>5. marks' \in [Keys -> [Times -> Nat]]
  BY <1>2, <1>3, MarkedLog DEF AccessTypeOK
<1>6. CASE UNCHANGED admitted
  <2>1. AccessTypeOK'
    BY <1>2, <1>3, <1>4, <1>5, <1>6 DEF AccessTypeOK, AttemptType
  <2> QED BY <1>2, <1>3, <1>4, <1>6, <2>1, MarkOnly DEF AccessInv
<1>7. CASE /\ ~ (CountIn(Marked(k), now) > LoginLimit)
           /\ admitted' = [admitted EXCEPT ![k][now] = @ + 1]
  <2>1. CountIn(Marked(k), now) \in Int
    <3>1. \A u \in Window(now) : Marked(k)[u] \in Int
      BY <1>2, MarkedLog DEF Window
    <3> QED BY <3>1, WindowIsFinite, SumTakeOut, CountIsSum
  <2>2. CountIn(Marked(k), now) <= LoginLimit
    BY <1>7, <2>1, AccessAssumption
  <2>3. admitted' \in [Keys -> [Times -> Nat]]
    BY <1>2, <1>7 DEF AccessTypeOK
  <2>4. AccessTypeOK'
    BY <1>2, <1>3, <1>4, <1>5, <2>3 DEF AccessTypeOK, AttemptType
  <2> QED BY <1>2, <1>3, <1>4, <1>7, <2>2, <2>4, LetIn DEF AccessInv
<1> QED BY <1>3, <1>6, <1>7

LEMMA AllowUnknownKeeps ==
  ASSUME AccessInv, NEW a \in Attempts, NEW step \in {"address", "email"},
         AllowUnknown(a, step)
  PROVE  AccessInv'
<1>1. PICK k : k = KeyOf(a, step)
  OBVIOUS
<1>2. k \in Keys /\ AccessTypeOK
  BY <1>1, KeyOfAttempt DEF AccessInv
<1>3. /\ UNCHANGED marks \/ marks' = [marks EXCEPT ![k] = Marked(k)]
      /\ Is(a, step) /\ Proceed(a, After(step)) /\ UNCHANGED <<now, sessions, admitted>>
  BY <1>1 DEF AllowUnknown
<1>4. /\ attempts' \in [Attempts -> AttemptType]
      /\ \A o \in Attempts : SessionFollows(o)'
  BY <1>3, AllowMoves
<1>5. marks' \in [Keys -> [Times -> Nat]]
  BY <1>2, <1>3, MarkedLog DEF AccessTypeOK
<1>6. AccessTypeOK'
  BY <1>2, <1>3, <1>4, <1>5 DEF AccessTypeOK, AttemptType
<1> QED BY <1>2, <1>3, <1>4, <1>6, MarkOnly DEF AccessInv

\* The steps in between, which are of one attempt and its session.
LEMMA SessionStepKeeps ==
  ASSUME AccessInv, NEW a \in Attempts,
         CheckPassword(a) \/ CreateSession(a) \/ Resolve(a)
  PROVE  AccessInv'
<1> USE DEF SignInSteps, SignInReplies
<1>1. UNCHANGED <<now, marks, admitted>>
  BY DEF CheckPassword, CreateSession, Resolve
<1>2. \A s \in SignInSteps : Proceed(a, s) =>
        /\ attempts' \in [Attempts -> AttemptType]
        /\ attempts'[a].step = s /\ attempts'[a].reply = attempts[a].reply
        /\ \A o \in Attempts \ {a} : attempts'[o] = attempts[o]
  BY AttemptGoesOn DEF AccessInv
<1>3. \A r \in SignInReplies : Finish(a, r) =>
        /\ attempts' \in [Attempts -> AttemptType]
        /\ attempts'[a].step = "done" /\ attempts'[a].reply = r
        /\ \A o \in Attempts \ {a} : attempts'[o] = attempts[o]
  BY AttemptEnds DEF AccessInv
<1>4. SessionFollows(a)
  BY DEF AccessInv
<1>5. /\ attempts' \in [Attempts -> AttemptType] /\ SessionFollows(a)'
      /\ \A o \in Attempts \ {a} : /\ attempts'[o] = attempts[o]
                                   /\ (o \in sessions') <=> (o \in sessions)
  <2>1. CASE CheckPassword(a)
    BY <1>2, <1>3, <1>4, <2>1 DEF CheckPassword, SessionFollows, Is
  <2>2. CASE CreateSession(a)
    BY <1>2, <1>3, <1>4, <2>2 DEF CreateSession, SessionFollows, Is
  <2>3. CASE Resolve(a)
    BY <1>2, <1>3, <1>4, <2>3 DEF Resolve, SessionFollows, Is
  <2> QED BY <2>1, <2>2, <2>3
<1>6. AccessTypeOK'
  BY <1>1, <1>5 DEF AccessInv, AccessTypeOK, AttemptType
<1>7. \A o \in Attempts : SessionFollows(o)'
  BY <1>5, OthersFollow
<1> QED BY <1>1, <1>6, <1>7, LimiterRests DEF AccessInv

LEMMA ResetKeeps ==
  ASSUME AccessInv, NEW a \in Attempts, NEW step \in {"address", "email"}, Reset(a, step)
  PROVE  AccessInv'
<1>1. PICK k : k = KeyOf(a, step)
  OBVIOUS
<1>2. k \in Keys /\ AccessTypeOK
  BY <1>1, KeyOfAttempt DEF AccessInv
<1>3. /\ UNCHANGED <<now, sessions>> /\ attempts[a].step \in {"reset address", "reset email"}
      /\ \/ Proceed(a, "reset email") \/ Finish(a, "in")
      /\ \/ /\ marks' = [marks EXCEPT ![k] = NoMarks]
            /\ admitted' = [admitted EXCEPT ![k] = NoMarks]
         \/ UNCHANGED <<marks, admitted>>
  BY <1>1 DEF Reset, Is, ResetOf
<1>4. "reset email" \in SignInSteps /\ "in" \in SignInReplies
  BY DEF SignInSteps, SignInReplies
<1>5. attempts[a].reply = "none" /\ a \in sessions
  BY <1>3 DEF AccessInv, SessionFollows
<1>6. /\ attempts' \in [Attempts -> AttemptType]
      /\ \/ attempts'[a].step = "done" /\ attempts'[a].reply = "in"
         \/ attempts'[a].step = "reset email" /\ attempts'[a].reply = "none"
      /\ \A o \in Attempts \ {a} : attempts'[o] = attempts[o]
  BY <1>2, <1>3, <1>4, <1>5, AttemptGoesOn, AttemptEnds
<1>7. SessionFollows(a)'
  BY <1>3, <1>5, <1>6 DEF SessionFollows
<1>8. \A o \in Attempts : SessionFollows(o)'
  BY <1>3, <1>6, <1>7, OthersFollow
<1>9. CASE UNCHANGED <<marks, admitted>>
  <2>1. AccessTypeOK'
    BY <1>2, <1>3, <1>6, <1>9 DEF AccessTypeOK, AttemptType
  <2> QED BY <1>3, <1>8, <1>9, <2>1, LimiterRests DEF AccessInv
<1>10. CASE /\ marks' = [marks EXCEPT ![k] = NoMarks]
            /\ admitted' = [admitted EXCEPT ![k] = NoMarks]
  <2>1. NoMarks \in [Times -> Nat] /\ \A t \in Times : NoMarks[t] = 0
    BY DEF NoMarks
  <2>2. AccessTypeOK'
    BY <1>2, <1>3, <1>6, <1>10, <2>1 DEF AccessTypeOK, AttemptType
  <2>3. \A j \in Keys : \/ admitted'[j] = admitted[j] /\ marks'[j] = marks[j]
                        \/ admitted'[j] = NoMarks /\ marks'[j] = NoMarks
    BY <1>2, <1>10 DEF AccessTypeOK
  <2>4. MarksCoverAdmissions'
    <3>1. ASSUME NEW j \in Keys, NEW t \in Times
          PROVE  /\ InWindow(t, now) => admitted'[j][t] <= marks'[j][t]
                 /\ t > now => admitted'[j][t] = 0
      <4>1. CASE admitted'[j] = admitted[j] /\ marks'[j] = marks[j]
        BY <4>1 DEF AccessInv, MarksCoverAdmissions
      <4>2. CASE admitted'[j] = NoMarks /\ marks'[j] = NoMarks
        BY <2>1, <4>2
      <4> QED BY <2>3, <4>1, <4>2
    <3>2. now' = now
      BY <1>3
    <3> QED BY <3>1, <3>2 DEF MarksCoverAdmissions, InWindow
  <2>5. ASSUME NEW j \in Keys, NEW t \in Times
        PROVE  CountIn(admitted'[j], t) <= LoginLimit
    <3>1. CASE admitted'[j] = admitted[j]
      BY <3>1 DEF AccessInv, WindowsAreBounded
    <3>2. CASE admitted'[j] = NoMarks
      BY <3>2, NothingCounts, AccessAssumption
    <3> QED BY <2>3, <3>1, <3>2
  <2>6. WindowsAreBounded'
    BY <2>5 DEF WindowsAreBounded
  <2> QED BY <1>8, <2>2, <2>4, <2>6 DEF AccessInv
<1> QED BY <1>3, <1>9, <1>10

LEMMA LogoutKeeps ==
  ASSUME AccessInv, NEW a \in Attempts, Logout(a)
  PROVE  AccessInv'
<1>1. /\ attempts[a].reply = "in" /\ sessions' = sessions \ {a}
      /\ attempts' = [attempts EXCEPT ![a].reply = "out"]
      /\ UNCHANGED <<now, marks, admitted>>
  BY DEF Logout
<1>2. "out" \in SignInReplies
  BY DEF SignInReplies
<1>3. /\ attempts' \in [Attempts -> AttemptType]
      /\ attempts'[a].step = attempts[a].step /\ attempts'[a].reply = "out"
      /\ \A o \in Attempts \ {a} : attempts'[o] = attempts[o]
  BY <1>1, <1>2 DEF AccessInv, AccessTypeOK, AttemptType
<1>4. AccessTypeOK'
  BY <1>1, <1>3 DEF AccessInv, AccessTypeOK, AttemptType
<1>5. attempts[a].step = "done"
  BY <1>1 DEF AccessInv, SessionFollows
<1>6. SessionFollows(a)'
  BY <1>1, <1>3, <1>5 DEF SessionFollows
<1>7. \A o \in Attempts : SessionFollows(o)'
  BY <1>1, <1>3, <1>6, OthersFollow
<1> QED BY <1>1, <1>4, <1>7, LimiterRests DEF AccessInv

LEMMA AccessTickKeeps ==
  ASSUME AccessInv, now < MaxTime, now' = now + 1,
         UNCHANGED <<marks, attempts, sessions, admitted>>
  PROVE  AccessInv'
<1>1. now \in Times /\ now' \in Times /\ now \in Int /\ Times \subseteq Int
  BY AccessAssumption DEF AccessInv, AccessTypeOK, Times
<1>2. AccessTypeOK'
  BY <1>1 DEF AccessInv, AccessTypeOK
<1>3. MarksCoverAdmissions'
  <2>1. ASSUME NEW k \in Keys, NEW t \in Times
        PROVE  /\ InWindow(t, now + 1) => admitted[k][t] <= marks[k][t]
               /\ t > now + 1 => admitted[k][t] = 0
    <3>1. /\ InWindow(t, now) => admitted[k][t] <= marks[k][t]
          /\ t > now => admitted[k][t] = 0
      BY DEF AccessInv, MarksCoverAdmissions
    <3>2. marks[k][t] \in Nat
      BY DEF AccessInv, AccessTypeOK
    <3>3. InWindow(t, now + 1) => InWindow(t, now) \/ t > now
      BY <1>1, WindowsMeet
    <3> QED BY <1>1, <3>1, <3>2, <3>3
  <2> QED BY <2>1 DEF MarksCoverAdmissions, InWindow
<1>4. WindowsAreBounded' /\ \A a \in Attempts : SessionFollows(a)'
  BY DEF AccessInv, WindowsAreBounded, SessionFollows
<1> QED BY <1>2, <1>3, <1>4 DEF AccessInv

LEMMA AccessBegins ==
  ASSUME AccessInit
  PROVE  AccessInv
<1> PICK address \in [Attempts -> Addresses], email \in [Attempts -> Emails] :
       attempts = [a \in Attempts |-> [address |-> address[a], email |-> email[a],
                                       step |-> "idle", reply |-> "none"]]
  BY DEF AccessInit
<1>1. AccessTypeOK
  <2>1. now \in Times
    BY AccessAssumption DEF AccessInit, Times
  <2>2. marks \in [Keys -> [Times -> Nat]] /\ admitted \in [Keys -> [Times -> Nat]]
    BY DEF AccessInit, NoMarks
  <2>3. "idle" \in SignInSteps /\ "none" \in SignInReplies
    BY DEF SignInSteps, SignInReplies
  <2> QED BY <2>1, <2>2, <2>3 DEF AccessTypeOK
<1>2. ASSUME NEW k \in Keys, NEW t \in Times
      PROVE  /\ admitted[k] = NoMarks
             /\ admitted[k][t] = 0 /\ marks[k][t] = 0
  BY DEF AccessInit, NoMarks
<1>3. MarksCoverAdmissions
  BY <1>2 DEF MarksCoverAdmissions
<1>4. WindowsAreBounded
  BY <1>2, NothingCounts, AccessAssumption DEF WindowsAreBounded
<1>5. \A a \in Attempts : SessionFollows(a)
  <2>1. sessions = {}
    BY DEF AccessInit
  <2>2. \A a \in Attempts : attempts[a].step = "idle" /\ attempts[a].reply = "none"
    OBVIOUS
  <2> QED BY <2>1, <2>2 DEF SessionFollows
<1> QED BY <1>1, <1>3, <1>4, <1>5 DEF AccessInv

LEMMA AccessInvariant == AccessSpec => []AccessInv
<1>1. AccessInit => AccessInv
  BY AccessBegins
<1>2. AccessInv /\ [AccessNext]_accessVars => AccessInv'
  <2> SUFFICES ASSUME AccessInv, [AccessNext]_accessVars
               PROVE  AccessInv'
    OBVIOUS
  <2>1. CASE /\ now < MaxTime /\ now' = now + 1
             /\ UNCHANGED <<marks, attempts, sessions, admitted>>
    BY <2>1, AccessTickKeeps
  <2>2. CASE \E a \in Attempts : Arrive(a) \/ AttemptStep(a) \/ Logout(a)
    BY <2>2, ArriveKeeps, AllowKeeps, AllowUnknownKeeps, ResetKeeps, SessionStepKeeps,
       LogoutKeeps DEF AttemptStep
  <2>3. CASE UNCHANGED accessVars
    <3>1. AccessTypeOK' /\ \A a \in Attempts : SessionFollows(a)'
      BY <2>3 DEF accessVars, AccessInv, AccessTypeOK, SessionFollows
    <3> QED BY <2>3, <3>1, LimiterRests DEF accessVars, AccessInv
  <2> QED BY <2>1, <2>2, <2>3 DEF AccessNext, Tick
<1> QED BY <1>1, <1>2, PTL DEF AccessSpec

(* However many attempts come at once, no window of time, wherever it begins, *)
(* lets in more of them for an address or an email than the limit; a session  *)
(* is only for those let in and checked, and is there when the answer says so *)
(* (platform/ratelimit, Limiter.Allow; auth/service.go, Login).               *)
THEOREM LimitIsKept == AccessSpec => []AdmissionsAreBounded
<1>1. AccessInv => AdmissionsAreBounded
  BY DEF AccessInv, AdmissionsAreBounded, WindowsAreBounded, SessionFollows
<1> QED BY <1>1, AccessInvariant, PTL

-----------------------------------------------------------------------------
(* The catalogue.                                                           *)

\* The tables of groups.
Groups == {"categories", "suppliers"}

\* An accepted row of a file, or what a request of one statement asks for.
AskedRow ==
  [kind : {"row"}, line : Nat, name : ItemNames \cup {None},
   category : GroupNames \cup {None}, supplier : GroupNames \cup {None}, opening : Nat]

\* Rows of the tables, by name, maker and, for an item, id.
GroupRow == [name : GroupNames, by : Requests \cup {None}]

ItemRow ==
  [id : (Requests \cup {None}) \X Nat, name : ItemNames \cup {None},
   by : Requests \cup {None}, category : GroupRow \cup {None},
   supplier : GroupRow \cup {None}, onHand : Nat, archived : BOOLEAN]

\* Rows by table: the committed ones, or those of a transaction.
Store == [Tables -> SUBSET (GroupRow \cup ItemRow)]

\* A change of one field of an item.
Changes ==
  [field : {"name"}, value : ItemNames]
    \cup [field : {"category", "supplier"}, value : GroupRow]
    \cup [field : {"archived"}, value : {TRUE}]

ImportStages == {"categories", "new categories", "suppliers", "new suppliers", "items",
                 "commit", "done"}

RequestType ==
  [op : {"none", "import", "create", "update"}, step : ImportStages \cup {"idle", "update"},
   rows : Seq(AskedRow), at : Nat \ {0}, known : [Tables -> SUBSET GroupRow],
   change : Changes \cup {None}, item : ItemRow \cup {None},
   reply : {"none", "preview", "done", "taken", "error"}, report : Nat]

CatalogueTypes ==
  /\ db \in Store /\ work \in [Requests -> Store] /\ reqs \in [Requests -> RequestType]
  /\ \A row \in db.items : row \in ItemRow /\ row.id[1] = row.by
  /\ \A t \in Groups : db[t] \subseteq GroupRow

\* Every row that asks for a group of the table names one that is known.
AllKnown(q, table) ==
  \A n \in DOMAIN q.rows :
    Asked(q.rows[n], table) # None => Named(q.known[table], Asked(q.rows[n], table)) # {}

\* What a request that makes rows has made: its own, of the lines it has passed.
MakerFits(r, q, w, d) ==
  /\ \A t \in Groups : IsFiniteSet(w[t]) /\ \A row \in w[t] : row \in GroupRow /\ row.by = r
  /\ \A row \in w.items :
       /\ row \in ItemRow /\ row.by = r /\ row.id[1] = r
       /\ row.category \in q.known.categories \cup {None}
       /\ row.supplier \in q.known.suppliers \cup {None}
  /\ \A t \in Groups : q.known[t] \subseteq d[t] \cup w[t]

ImportFits(r, q, w, d) ==
  /\ q.step # "done" =>
       /\ {row.id[2] : row \in w.items} = {q.rows[n].line : n \in 1..(q.at - 1)}
       /\ Cardinality(w.categories) + Cardinality(w.suppliers) = q.report
       /\ q.rows # << >>
  /\ q.step \in {"categories", "new categories", "suppliers", "new suppliers"} => q.at = 1
  /\ q.step = "items" => q.at \in 1..Len(q.rows)
  /\ q.step = "commit" => q.at = Len(q.rows) + 1
  /\ q.step \in {"suppliers", "new suppliers", "items", "commit"} => AllKnown(q, "categories")
  /\ q.step \in {"items", "commit"} => AllKnown(q, "suppliers")

\* What was answered as done is there.
ImportStands(r, q, d) ==
  LET made(t) == {row \in d[t] : row.by = r}
  IN  /\ {row.id[2] : row \in made("items")} = {row.line : row \in Range(q.rows)}
      /\ \A row \in made("items") :
           /\ row.category \in d.categories \cup {None}
           /\ row.supplier \in d.suppliers \cup {None}
      /\ Cardinality(made("categories")) + Cardinality(made("suppliers")) = q.report

CreateFits(q) ==
  /\ q.step \in {"new categories", "new suppliers", "items", "commit", "done"}
  /\ q.known = Nothing /\ Len(q.rows) = 1 /\ q.at \in {1, 2}
  /\ q.step = "items" => /\ q.at = 1 /\ q.rows[1].category = None
                         /\ q.rows[1].supplier = None
  /\ q.step = "new categories" => Asked(q.rows[1], "categories") # None
  /\ q.step = "new suppliers" => Asked(q.rows[1], "suppliers") # None

\* An update changes one field of an item that is there, and nobody else's
\* transaction has changed the item since.
UpdateFits(q, w, d) ==
  /\ q.step \in {"update", "commit", "done"}
  /\ q.item \in ItemRow /\ q.change \in Changes
  /\ q.change.field = "category" => q.change.value \in d.categories
  /\ q.change.field = "supplier" => q.change.value \in d.suppliers
  /\ \E row \in d.items : row.id = q.item.id
  /\ q.step = "update" => w = Nothing
  /\ q.step = "commit" =>
       /\ w.categories = {} /\ w.suppliers = {}
       /\ \E row \in d.items : row.id = q.item.id /\ w.items = {ChangedRow(row, q.change)}

Fits(r, q, w, d) ==
  /\ q.step \in {"idle", "done"} => w = Nothing
  /\ (q.step = "done") <=> (q.reply # "none")
  /\ (q.step = "idle") <=> (q.op = "none")
  /\ q.reply # "done" => \A t \in Tables : \A row \in d[t] : row.by # r
  /\ q.op \in {"import", "create"} /\ q.step # "done" => MakerFits(r, q, w, d)
  /\ q.op = "import" => q.step \in ImportStages /\ ImportFits(r, q, w, d)
  /\ q.op = "import" /\ q.reply = "done" => ImportStands(r, q, d)
  /\ q.op = "create" => CreateFits(q)
  /\ q.op = "update" => UpdateFits(q, w, d)

\* An item is changed by one transaction at a time.
UpdatesApart ==
  \A r \in Requests, o \in Requests :
    r # o /\ reqs[r].op = "update" /\ reqs[o].op = "update"
      /\ reqs[r].step = "commit" /\ reqs[o].step = "commit"
      => reqs[r].item.id # reqs[o].item.id

\* Whatever row has the id of a patched item has the value patched last.
PatchesStand ==
  \A f \in DOMAIN patched :
    /\ f \in ((Requests \cup {None}) \X Nat) \X {"name", "category", "supplier", "archived"}
    /\ \E row \in db.items : row.id = f[1]
    /\ \A row \in db.items : row.id = f[1] => row[f[2]] = patched[f]

CatalogueInv ==
  /\ CatalogueTypes
  /\ \A r \in Requests : Fits(r, reqs[r], work[r], db)
  /\ UpdatesApart
  /\ PatchesStand

\* A request goes on, and others are where they were.
LEMMA RequestGoesOn ==
  ASSUME CatalogueInv, NEW r \in Requests, NEW q \in RequestType, NEW w \in Store,
         reqs' = [reqs EXCEPT ![r] = q], work' = [work EXCEPT ![r] = w],
         UNCHANGED <<db, patched>>,
         Fits(r, q, w, db),
         q.op = "update" /\ q.step = "commit" => RowPending(r, q.item.id) = {} 
  PROVE  CatalogueInv'
<1>1. CatalogueTypes
  BY DEF CatalogueInv
<1>2. /\ reqs'[r] = q /\ work'[r] = w
      /\ \A o \in Requests \ {r} : reqs'[o] = reqs[o] /\ work'[o] = work[o]
  BY <1>1 DEF CatalogueTypes
<1>3. CatalogueTypes'
  BY <1>1 DEF CatalogueTypes
<1>4. ASSUME NEW o \in Requests PROVE Fits(o, reqs'[o], work'[o], db')
  <2>1. CASE o = r
    BY <1>2, <2>1
  <2>2. CASE o # r
    <3>1. Fits(o, reqs[o], work[o], db)
      BY DEF CatalogueInv
    <3> QED BY <1>2, <2>2, <3>1
  <2> QED BY <2>1, <2>2
<1>5. ASSUME NEW o \in Requests \ {r}, reqs[o].op = "update", reqs[o].step = "commit",
             q.op = "update", q.step = "commit"
      PROVE  reqs[o].item.id # q.item.id
  <2>1. UpdateFits(reqs[o], work[o], db)
    BY <1>5 DEF CatalogueInv, Fits
  <2>2. PICK row \in db.items :
          row.id = reqs[o].item.id /\ work[o].items = {ChangedRow(row, reqs[o].change)}
    BY <1>5, <2>1 DEF UpdateFits
  <2>3. ChangedRow(row, reqs[o].change).id = row.id
    <3>1. row \in ItemRow /\ reqs[o].change \in Changes
      BY <1>1, <2>1 DEF CatalogueTypes, UpdateFits
    <3>2. reqs[o].change.field \in {"name", "category", "supplier", "archived"}
      BY <3>1 DEF Changes
    <3> QED BY <3>1, <3>2 DEF ChangedRow, ItemRow
  <2> QED BY <1>5, <2>2, <2>3 DEF RowPending
<1>6. UpdatesApart'
  BY <1>2, <1>5 DEF CatalogueInv, UpdatesApart
<1>7. PatchesStand'
  BY DEF CatalogueInv, PatchesStand
<1> QED BY <1>3, <1>4, <1>6, <1>7 DEF CatalogueInv

-----------------------------------------------------------------------------
(* Reading a file.                                                          *)

\* What has been read of a file.
Parsed == [rows : Seq(AskedRow), errors : Nat, full : BOOLEAN]

\* A line is added, counted or skipped.
LEMMA LineIsParsed ==
  ASSUME NEW p \in Parsed, NEW line \in Line, NEW n \in Nat
  PROVE  ParseLine(p, line, n) \in Parsed
<1> USE DEF Parsed
<1>1. [p EXCEPT !.errors = @ + 1, !.full = TRUE] \in Parsed
  <2>1. p.errors + 1 \in Nat /\ TRUE \in BOOLEAN
    OBVIOUS
  <2>2. \A e \in Nat, b \in BOOLEAN : [p EXCEPT !.errors = e, !.full = b] \in Parsed
    OBVIOUS
  <2> QED BY <2>1, <2>2, Zenon
<1>2. [p EXCEPT !.errors = @ + 1] \in Parsed
  OBVIOUS
<1>3. ASSUME line.kind # "blank", line.kind # "bad"
      PROVE  [p EXCEPT !.rows = Append(@, [line EXCEPT !.line = n])] \in Parsed
  <2>1. line \in [kind : {"row"}, line : Nat, name : ItemNames,
                  category : GroupNames \cup {None}, supplier : GroupNames \cup {None},
                  opening : Nat]
    BY <1>3 DEF Line
  <2>2. [line EXCEPT !.line = n] \in AskedRow
    BY <2>1 DEF AskedRow
  <2>3. Append(p.rows, [line EXCEPT !.line = n]) \in Seq(AskedRow)
    BY <2>2, AppendProperties
  <2> HIDE DEF ParseLine
  <2> QED BY <2>3
<1> QED BY <1>1, <1>2, <1>3 DEF ParseLine

\* What t[0], ..., t[n] are when a file is read.
Reads(t, file, n) ==
  t = [k \in 0..n |-> IF k = 0 THEN [rows |-> << >>, errors |-> 0, full |-> FALSE]
                      ELSE ParseLine(t[k - 1], file[k], k)]

\* A file can be read to its end.
LEMMA FileIsRead ==
  ASSUME NEW file, NEW n \in Nat
  PROVE  \E t : Reads(t, file, n)
<1> DEFINE T == {k \in Nat : \E t : Reads(t, file, k)}
           first == [rows |-> << >>, errors |-> 0, full |-> FALSE]
<1>1. 0 \in T
  <2> DEFINE t == [k \in 0..0 |-> first]
  <2>1. Reads(t, file, 0)
    BY DEF Reads
  <2> QED BY <2>1
<1>2. ASSUME NEW k \in Nat, k \in T PROVE k + 1 \in T
  <2>1. PICK t : Reads(t, file, k)
    BY <1>2
  <2> DEFINE u == [j \in 0..(k + 1) |-> IF j = k + 1 THEN ParseLine(t[k], file[j], j) ELSE t[j]]
  <2>2. ASSUME NEW j \in 0..(k + 1)
        PROVE  u[j] = IF j = 0 THEN first ELSE ParseLine(u[j - 1], file[j], j)
    <3>1. CASE j = k + 1
      <4>1. j # 0 /\ j - 1 = k /\ u[j - 1] = t[k] /\ u[j] = ParseLine(t[k], file[j], j)
        BY <3>1
      <4> QED BY <4>1
    <3>2. CASE j # k + 1
      <4>1. j \in 0..k /\ u[j] = t[j]
        BY <3>2
      <4>2. j # 0 => j - 1 \in 0..k /\ u[j - 1] = t[j - 1]
        BY <4>1
      <4>3. t[j] = IF j = 0 THEN first ELSE ParseLine(t[j - 1], file[j], j)
        BY <2>1, <4>1 DEF Reads
      <4> HIDE DEF u, first
      <4> QED BY <4>1, <4>2, <4>3
    <3> QED BY <3>1, <3>2
  <2>3. u = [j \in 0..(k + 1) |-> u[j]]
    OBVIOUS
  <2>4. Reads(u, file, k + 1)
    <3> HIDE DEF u
    <3> QED BY <2>2, <2>3 DEF Reads
  <2> QED BY <2>4
<1>3. Nat \subseteq T
  <2> HIDE DEF T
  <2> QED BY <1>1, <1>2, SetInduction
<1> QED BY <1>3

\* Whatever a file holds, its accepted rows are rows.
LEMMA RowsAreParsed ==
  ASSUME NEW file \in Files
  PROVE  ParseCSV(file).rows \in Seq(AskedRow)
<1>1. file \in Seq(Line) /\ Len(file) \in Nat
  BY CatalogueAssumption
<1> DEFINE n == Len(file)
<1>2. PICK t : t = CHOOSE u : Reads(u, file, n)
  OBVIOUS
<1>3. Reads(t, file, n)
  BY <1>1, <1>2, FileIsRead
<1> DEFINE first == [rows |-> << >>, errors |-> 0, full |-> FALSE]
<1>8. \A k \in 0..n : t[k] = IF k = 0 THEN first ELSE ParseLine(t[k - 1], file[k], k)
  BY <1>3 DEF Reads
<1> HIDE DEF first
<1>4. ParseCSV(file) = t[n]
  BY <1>2, Zenon DEF ParseCSV, Reads
<1> DEFINE T == {k \in Nat : k <= n => t[k] \in Parsed}
<1>5. 0 \in T
  <2>1. << >> \in Seq(AskedRow)
    BY EmptySeq
  <2>2. t[0] = first
    BY <1>1, <1>8
  <2>3. first \in Parsed
    BY <2>1 DEF Parsed, first
  <2> QED BY <2>2, <2>3
<1>6. ASSUME NEW k \in Nat, k \in T PROVE k + 1 \in T
  <2>1. SUFFICES ASSUME k + 1 <= n PROVE t[k + 1] \in Parsed
    OBVIOUS
  <2>2. t[k + 1] = ParseLine(t[k], file[k + 1], k + 1)
    <3>1. k + 1 \in 0..n /\ k + 1 # 0 /\ (k + 1) - 1 = k
      BY <1>1, <2>1
    <3> QED BY <1>8, <3>1
  <2>3. t[k] \in Parsed /\ file[k + 1] \in Line
    BY <1>1, <1>6, <2>1
  <2> QED BY <2>2, <2>3, LineIsParsed
<1>7. Nat \subseteq T
  <2> HIDE DEF T
  <2> QED BY <1>5, <1>6, SetInduction
<1> QED BY <1>1, <1>4, <1>7 DEF Parsed

-----------------------------------------------------------------------------
(* The steps of a request, but for its commit.                              *)

\* A group that is asked for has a name.
LEMMA MissingHasName ==
  ASSUME CatalogueTypes, NEW r \in Requests, NEW t \in Groups, Missing(r, t) # {}
  PROVE  NextMissing(r, t) \in GroupNames
<1>1. reqs[r].rows \in Seq(AskedRow) /\ Len(reqs[r].rows) \in Nat
  BY DEF CatalogueTypes, RequestType
<1>2. DOMAIN reqs[r].rows = 1..Len(reqs[r].rows)
  BY <1>1
<1>3. Missing(r, t) \in SUBSET Nat
  BY <1>1, <1>2 DEF Missing
<1>4. Min(Missing(r, t)) \in Missing(r, t)
  BY <1>3, LeastIs
<1> DEFINE n == Min(Missing(r, t))
<1>5. n \in DOMAIN reqs[r].rows /\ Asked(reqs[r].rows[n], t) # None
  BY <1>4 DEF Missing
<1>6. reqs[r].rows[n] \in AskedRow
  BY <1>1, <1>2, <1>5
<1> HIDE DEF n
<1>7. Asked(reqs[r].rows[n], t) \in GroupNames
  BY <1>5, <1>6 DEF Asked, AskedRow
<1> QED BY <1>7 DEF NextMissing, n

\* What a request at a step is doing.
LEMMA StepTells ==
  ASSUME CatalogueInv, NEW r \in Requests
  PROVE  /\ Fits(r, reqs[r], work[r], db) /\ reqs[r] \in RequestType
         /\ work[r] \in Store
         /\ reqs[r].step \in {"categories", "suppliers"} => reqs[r].op = "import"
         /\ reqs[r].step \in {"new categories", "new suppliers", "items"} =>
              reqs[r].op \in {"import", "create"}
         /\ reqs[r].step = "update" => reqs[r].op = "update"
         /\ reqs[r].step = "commit" => reqs[r].op \in {"import", "create", "update"}
<1>1. Fits(r, reqs[r], work[r], db) /\ reqs[r] \in RequestType /\ work[r] \in Store
  BY DEF CatalogueInv, CatalogueTypes
<1> QED BY <1>1 DEF Fits, RequestType, ImportStages, CreateFits, UpdateFits

LEMMA NothingIsStored == Nothing \in Store /\ \A t \in Tables : Nothing[t] = {}
  BY DEF Nothing, Store

LEMMA IdleRequest ==
  /\ Idle \in RequestType
  /\ Idle.op = "none" /\ Idle.step = "idle" /\ Idle.rows = << >> /\ Idle.at = 1
  /\ Idle.known = Nothing /\ Idle.reply = "none" /\ Idle.report = 0
<1>1. << >> \in Seq(AskedRow)
  BY EmptySeq
<1>2. Nothing \in [Tables -> SUBSET GroupRow]
  BY DEF Nothing
<1> QED BY <1>1, <1>2 DEF Idle, RequestType

\* A request that has written nothing of a kind of its own fits.
LEMMA MakerBegins ==
  ASSUME NEW r, NEW q, q.known = Nothing, NEW d
  PROVE  MakerFits(r, q, Nothing, d)
<1>1. "items" \in Tables /\ Groups \subseteq Tables
  BY DEF Tables, Groups
<1>2. Nothing.items = {} /\ \A t \in Groups : Nothing[t] = {}
  BY <1>1 DEF Nothing
<1> QED BY <1>2, FS_EmptySet DEF MakerFits

LEMMA StartImportKeeps ==
  ASSUME CatalogueInv, NEW r \in Requests, StartImport(r)
  PROVE  CatalogueInv'
<1>1. PICK file \in Files, dryRun \in BOOLEAN :
        LET parsed == ParseCSV(file)
            preview == dryRun \/ parsed.errors > 0
        IN  /\ parsed.errors > 0 \/ parsed.rows # << >>
            /\ reqs' = [reqs EXCEPT ![r] =
                 [Idle EXCEPT !.op = "import", !.rows = parsed.rows,
                    !.step = IF preview THEN "done" ELSE "categories",
                    !.reply = IF preview THEN "preview" ELSE "none"]]
  BY DEF StartImport
<1> DEFINE rows == ParseCSV(file).rows
           preview == dryRun \/ ParseCSV(file).errors > 0
           q == [Idle EXCEPT !.op = "import", !.rows = rows,
                    !.step = IF preview THEN "done" ELSE "categories",
                    !.reply = IF preview THEN "preview" ELSE "none"]
<1>2. rows \in Seq(AskedRow)
  BY RowsAreParsed
<1>3. ~preview => rows # << >>
  BY <1>1
<1>4. reqs' = [reqs EXCEPT ![r] = q]
  BY <1>1
<1> HIDE DEF rows, preview
<1>5. /\ q \in RequestType /\ q.op = "import" /\ q.at = 1 /\ q.known = Nothing
      /\ q.report = 0 /\ q.rows = rows
      /\ q.step = IF preview THEN "done" ELSE "categories"
      /\ q.reply = IF preview THEN "preview" ELSE "none"
  BY <1>2, IdleRequest DEF RequestType, ImportStages
<1> HIDE DEF q
<1>6. /\ Fits(r, reqs[r], work[r], db) /\ reqs[r].step = "idle"
      /\ UNCHANGED <<db, work, patched>>
  BY StepTells DEF StartImport, At
<1>7. work[r] = Nothing /\ reqs[r].reply = "none"
  BY <1>6 DEF Fits
<1>8. Fits(r, q, work[r], db)
  <2>1. MakerFits(r, q, work[r], db)
    BY <1>5, <1>7, MakerBegins
  <2>2. ImportFits(r, q, work[r], db)
    <3>1. /\ Nothing.items = {} /\ Nothing.categories = {} /\ Nothing.suppliers = {}
          /\ Cardinality({}) = 0
      BY FS_EmptySet DEF Nothing, Tables
    <3>2. {row.id[2] : row \in Nothing.items} = {q.rows[n].line : n \in 1..(q.at - 1)}
      BY <1>5, <3>1
    <3>3. Cardinality(Nothing.categories) + Cardinality(Nothing.suppliers) = q.report
      BY <1>5, <3>1
    <3> QED BY <1>3, <1>5, <1>7, <3>2, <3>3 DEF ImportFits
  <2>3. q.step \in ImportStages
    BY <1>5 DEF ImportStages
  <2> QED BY <1>5, <1>6, <1>7, <2>1, <2>2, <2>3 DEF Fits
<1>9. work \in [Requests -> Store] /\ work[r] \in Store
  BY DEF CatalogueInv, CatalogueTypes
<1>10. work' = [work EXCEPT ![r] = work[r]]
  BY <1>6, <1>9
<1> QED BY <1>4, <1>5, <1>6, <1>8, <1>9, <1>10, RequestGoesOn

\* A request at another step, with what it knows of one table and what it reports.
Learned(p, t, K, s, n) == [p EXCEPT !.known[t] = K, !.step = s, !.report = n]

LearnedIs(q, p, t, K, s, n) ==
  /\ q \in RequestType /\ q.step = s /\ q.known[t] = K
  /\ \A o \in Tables \ {t} : q.known[o] = p.known[o]
  /\ q.op = p.op /\ q.rows = p.rows /\ q.at = p.at /\ q.report = n
  /\ q.change = p.change /\ q.item = p.item /\ q.reply = p.reply

LEMMA LearnsAs ==
  ASSUME NEW p \in RequestType, NEW t \in Groups, NEW K \in SUBSET GroupRow,
         NEW s \in ImportStages, NEW n \in Nat
  PROVE  LearnedIs(Learned(p, t, K, s, n), p, t, K, s, n)
<1> DEFINE q == Learned(p, t, K, s, n)
<1> USE DEF Learned
<1>1. p.known \in [Tables -> SUBSET GroupRow] /\ t \in Tables
  BY DEF RequestType, Tables, Groups
<1>2. [p.known EXCEPT ![t] = K] \in [Tables -> SUBSET GroupRow]
  BY <1>1
<1>3. /\ q.step = s /\ q.known = [p.known EXCEPT ![t] = K]
      /\ q.op = p.op /\ q.rows = p.rows /\ q.at = p.at /\ q.report = n
      /\ q.change = p.change /\ q.item = p.item /\ q.reply = p.reply
  BY DEF RequestType
<1>4. q \in RequestType
  BY <1>2 DEF RequestType, ImportStages
<1> QED BY <1>1, <1>3, <1>4 DEF LearnedIs

LEMMA NoneBefore ==
  ASSUME NEW n, n = 1
  PROVE  1..(n - 1) = {}
  OBVIOUS

\* An import that is still reading tables has made no item.
LEMMA NothingPassed ==
  ASSUME NEW r, NEW q, NEW w, NEW d, ImportFits(r, q, w, d),
         q.step \in {"categories", "new categories", "suppliers", "new suppliers"}
  PROVE  q.at = 1 /\ w.items = {} /\ q.rows # << >>
<1>1. q.at = 1 /\ q.rows # << >>
      /\ {row.id[2] : row \in w.items} = {q.rows[n].line : n \in 1..(q.at - 1)}
  BY DEF ImportFits
<1>2. 1..(q.at - 1) = {}
  <2>1. q.at = 1
    BY <1>1
  <2> QED BY <2>1, NoneBefore
<1>3. {row.id[2] : row \in w.items} = {}
  BY <1>1, <1>2
<1> QED BY <1>1, <1>3

LEMMA ReadNamesKeeps ==
  ASSUME CatalogueInv, NEW r \in Requests, NEW t \in Groups, ReadNames(r, t)
  PROVE  CatalogueInv'
<1> DEFINE p == reqs[r]
           s == New(t)
           q == Learned(p, t, db[t], s, p.report)
<1>1. /\ Fits(r, p, work[r], db) /\ p \in RequestType /\ work[r] \in Store
      /\ p.step = t /\ p.op = "import" /\ UNCHANGED <<db, work, patched>>
  BY StepTells DEF ReadNames, At, Groups
<1>2. db[t] \subseteq GroupRow /\ s \in ImportStages /\ p.report \in Nat
  BY <1>1 DEF CatalogueInv, CatalogueTypes, New, ImportStages, RequestType
<1>3. reqs' = [reqs EXCEPT ![r] = q]
  <2>1. reqs \in [Requests -> RequestType]
    BY DEF CatalogueInv, CatalogueTypes
  <2>2. q = [p EXCEPT !.known[t] = db[t], !.step = s]
    BY <1>1 DEF RequestType, Learned
  <2> HIDE DEF q
  <2> QED BY <2>1, <2>2 DEF ReadNames
<1>4. /\ q \in RequestType /\ q.step = s /\ q.known[t] = db[t]
      /\ \A o \in Tables \ {t} : q.known[o] = p.known[o]
      /\ q.op = p.op /\ q.rows = p.rows /\ q.at = p.at /\ q.report = p.report
      /\ q.change = p.change /\ q.item = p.item /\ q.reply = p.reply
  <2>1. LearnedIs(q, p, t, db[t], s, p.report)
    BY <1>1, <1>2, LearnsAs
  <2> HIDE DEF q, p, s
  <2> QED BY <2>1 DEF LearnedIs
<1> HIDE DEF q
<1>5. MakerFits(r, p, work[r], db) /\ ImportFits(r, p, work[r], db) /\ p.reply = "none"
  BY <1>1 DEF Fits, Groups
<1>6. p.at = 1 /\ work[r].items = {}
  BY <1>1, <1>5, NothingPassed DEF Groups
<1>7. MakerFits(r, q, work[r], db)
  BY <1>4, <1>5, <1>6 DEF MakerFits, Groups, Tables
<1>8. ImportFits(r, q, work[r], db)
  <2>1. q.step \in {"new categories", "new suppliers"}
    BY <1>4 DEF New
  <2>2. ASSUME q.step = "new suppliers" PROVE AllKnown(q, "categories")
    <3>1. t = "suppliers"
      BY <1>4, <2>2 DEF New, Groups
    <3>2. AllKnown(p, "categories")
      BY <1>1, <1>5, <3>1 DEF ImportFits
    <3>3. q.known["categories"] = p.known["categories"] /\ q.rows = p.rows
      BY <1>4, <3>1 DEF Tables
    <3> QED BY <3>2, <3>3 DEF AllKnown
  <2>3. /\ p.step # "done"
        /\ {row.id[2] : row \in work[r].items} = {p.rows[n].line : n \in 1..(p.at - 1)}
        /\ Cardinality(work[r].categories) + Cardinality(work[r].suppliers) = p.report
        /\ p.rows # << >>
    BY <1>1, <1>5 DEF ImportFits, Groups
  <2> HIDE DEF p
  <2> QED BY <1>4, <1>6, <2>1, <2>2, <2>3 DEF ImportFits
<1>9. Fits(r, q, work[r], db)
  BY <1>1, <1>2, <1>4, <1>5, <1>7, <1>8 DEF Fits, New
<1>10. work' = [work EXCEPT ![r] = work[r]]
  BY <1>1 DEF CatalogueInv, CatalogueTypes
<1> QED BY <1>1, <1>3, <1>4, <1>9, <1>10, RequestGoesOn

\* One more row in a table of the workspace.
Inserted(w, t, row) == [w EXCEPT ![t] = @ \cup {row}]

LEMMA InsertedRow ==
  ASSUME NEW w \in Store, NEW t \in Tables, NEW row \in GroupRow \cup ItemRow
  PROVE  LET v == Inserted(w, t, row) IN
         /\ v \in Store /\ v[t] = w[t] \cup {row}
         /\ \A o \in Tables \ {t} : v[o] = w[o]
  BY DEF Store, Inserted

\* Groups of one's own, with one more, are finitely many and one's own.
LEMMA GroupsWithOneMore ==
  ASSUME NEW r, NEW t \in Groups, NEW row \in GroupRow, row.by = r, NEW v, NEW w,
         w[t] = v[t] \cup {row}, \A o \in Tables \ {t} : w[o] = v[o],
         \A o \in Groups : IsFiniteSet(v[o]) /\ \A g \in v[o] : g \in GroupRow /\ g.by = r
  PROVE  \A o \in Groups : IsFiniteSet(w[o]) /\ \A g \in w[o] : g \in GroupRow /\ g.by = r
<1>1. ASSUME NEW o \in Groups, o # t
      PROVE  IsFiniteSet(w[o]) /\ \A g \in w[o] : g \in GroupRow /\ g.by = r
  <2>1. w[o] = v[o]
    BY <1>1 DEF Groups, Tables
  <2> QED BY <2>1
<1>2. IsFiniteSet(w[t]) /\ \A g \in w[t] : g \in GroupRow /\ g.by = r
  <2>1. IsFiniteSet(v[t] \cup {row})
    BY FS_AddElement
  <2>2. \A g \in w[t] : g \in v[t] \/ g = row
    OBVIOUS
  <2> QED BY <2>1, <2>2
<1> QED BY <1>1, <1>2

\* A group that is made is the request's own, and not counted yet.
LEMMA MadeGroup ==
  ASSUME CatalogueInv, NEW r \in Requests, NEW t \in Groups, Missing(r, t) # {},
         ~Taken(r, t, NextMissing(r, t)), NEW row,
         row = [name |-> NextMissing(r, t), by |-> r]
  PROVE  /\ row \in GroupRow /\ row \notin work[r][t] /\ row.by = r
         /\ row.name = NextMissing(r, t)
<1>1. NextMissing(r, t) \in GroupNames
  BY MissingHasName DEF CatalogueInv
<1> QED BY <1>1 DEF GroupRow, Taken, Named

LEMMA CreateMissingKeeps ==
  ASSUME CatalogueInv, NEW r \in Requests, NEW t \in Groups, CreateMissing(r, t)
  PROVE  CatalogueInv'
<1> DEFINE p == reqs[r]
<1>1. /\ Fits(r, p, work[r], db) /\ p \in RequestType /\ work[r] \in Store
      /\ p.step = New(t) /\ p.op = "import" /\ UNCHANGED <<db, patched>>
  BY StepTells DEF CreateMissing, At
<1>2. MakerFits(r, p, work[r], db) /\ ImportFits(r, p, work[r], db) /\ p.reply = "none"
  BY <1>1 DEF Fits, New
<1>3. p.at = 1 /\ work[r].items = {} /\ p.rows # << >>
  BY <1>1, <1>2, NothingPassed DEF New
<1>4. reqs \in [Requests -> RequestType] /\ work \in [Requests -> Store]
  BY DEF CatalogueInv, CatalogueTypes
<1>5. CASE Missing(r, t) = {}
  <2> DEFINE s == IF t = "categories" THEN "suppliers" ELSE "items"
             q == [p EXCEPT !.step = s]
  <2>1. /\ q \in RequestType /\ q.step = s
        /\ q.op = p.op /\ q.rows = p.rows /\ q.at = p.at
        /\ q.known = p.known /\ q.change = p.change /\ q.item = p.item
        /\ q.reply = p.reply /\ q.report = p.report
    BY <1>1 DEF RequestType, ImportStages
  <2>2. reqs' = [reqs EXCEPT ![r] = q] /\ work' = [work EXCEPT ![r] = work[r]]
    BY <1>4, <1>5 DEF CreateMissing, Goto
  <2> HIDE DEF q
  <2>3. AllKnown(q, t)
    BY <1>5, <2>1 DEF Missing, AllKnown
  <2>4. p.rows \in Seq(AskedRow) /\ Len(p.rows) \in Nat \ {0}
    BY <1>1, <1>3, EmptySeq DEF RequestType
  <2>5. MakerFits(r, q, work[r], db)
    BY <1>2, <2>1 DEF MakerFits
  <2>6. ImportFits(r, q, work[r], db)
    <3>1. s = "items" => t = "suppliers" /\ AllKnown(p, "categories")
      BY <1>1, <1>2 DEF ImportFits, Groups, New
    <3>2. \A o \in Groups : AllKnown(p, o) => AllKnown(q, o)
      BY <2>1 DEF AllKnown
    <3>3. /\ AllKnown(q, "categories")
          /\ s = "items" => AllKnown(q, "suppliers")
      BY <2>3, <3>1, <3>2 DEF Groups
    <3>4. q.at \in 1..Len(q.rows)
      BY <1>3, <2>1, <2>4
    <3> HIDE DEF s
    <3>5. s \in {"suppliers", "items"}
      BY DEF s
    <3> QED BY <1>1, <1>2, <1>3, <2>1, <3>3, <3>4, <3>5 DEF ImportFits, New
  <2>7. Fits(r, q, work[r], db)
    BY <1>1, <1>2, <2>1, <2>5, <2>6 DEF Fits, New, ImportStages
  <2> QED BY <1>1, <2>1, <2>2, <2>7, RequestGoesOn
<1>6. CASE Missing(r, t) # {}
  <2> DEFINE row == [name |-> NextMissing(r, t), by |-> r]
             K == p.known[t] \cup {row}
             q == Learned(p, t, K, p.step, p.report + 1)
             w == Inserted(work[r], t, row)
  <2>1. row \in GroupRow /\ row \notin work[r][t] /\ row.by = r
    BY <1>6, MadeGroup DEF CreateMissing
  <2>2. reqs' = [reqs EXCEPT ![r] = q] /\ work' = [work EXCEPT ![r] = w]
    <3>1. q = [p EXCEPT !.known[t] = K, !.report = p.report + 1]
      BY <1>1 DEF RequestType, Learned
    <3>2. t \in Tables
      BY DEF Tables, Groups
    <3>3. w = [work[r] EXCEPT ![t] = @ \cup {row}]
      BY DEF Inserted
    <3> HIDE DEF q, w
    <3> QED BY <3>3, <1>1, <1>4, <1>6, <3>1, <3>2 DEF CreateMissing, Insert, Store, RequestType
  <2> HIDE DEF row
  <2>3. K \in SUBSET GroupRow /\ p.step \in ImportStages /\ p.report + 1 \in Nat /\ t \in Tables
    <3>1. t \in Tables
      BY DEF Tables, Groups
    <3>2. p.known[t] \in SUBSET GroupRow /\ p.report + 1 \in Nat
      BY <1>1, <3>1 DEF RequestType
    <3>3. p.step \in ImportStages
      BY <1>1 DEF New, ImportStages
    <3> QED BY <2>1, <3>1, <3>2, <3>3
  <2>4. /\ q \in RequestType /\ q.step = p.step /\ q.known[t] = K
        /\ \A o \in Tables \ {t} : q.known[o] = p.known[o]
        /\ q.op = p.op /\ q.rows = p.rows /\ q.at = p.at /\ q.report = p.report + 1
        /\ q.change = p.change /\ q.item = p.item /\ q.reply = p.reply
    <3>1. LearnedIs(q, p, t, K, p.step, p.report + 1)
      <4> HIDE DEF p, K
      <4> QED BY <1>1, <2>3, LearnsAs
    <3> HIDE DEF q, p, K
    <3> QED BY <3>1 DEF LearnedIs
  <2>5. w \in Store /\ w[t] = work[r][t] \cup {row} /\ \A o \in Tables \ {t} : w[o] = work[r][o]
    BY <1>1, <2>1, <2>3, InsertedRow
  <2> HIDE DEF q, w
  <2>6. MakerFits(r, q, w, db)
    <3>1. \A o \in Groups : IsFiniteSet(w[o]) /\ \A g \in w[o] : g \in GroupRow /\ g.by = r
      <4>1. \A o \in Groups :
              IsFiniteSet(work[r][o]) /\ \A g \in work[r][o] : g \in GroupRow /\ g.by = r
        BY <1>2 DEF MakerFits
      <4> QED BY <2>1, <2>5, <4>1, GroupsWithOneMore
    <3>2. w.items = {}
      BY <1>3, <2>5 DEF Groups, Tables
    <3>3. \A o \in Groups : q.known[o] \subseteq db[o] \cup w[o]
      BY <1>2, <2>4, <2>5 DEF MakerFits, Groups, Tables
    <3> QED BY <3>1, <3>2, <3>3 DEF MakerFits
  <2>7. ImportFits(r, q, w, db)
    <3>1. Cardinality(w[t]) = Cardinality(work[r][t]) + 1
      <4>1. IsFiniteSet(work[r][t])
        BY <1>2 DEF MakerFits
      <4> QED BY <2>1, <2>5, <4>1, FS_AddElement
    <3>2. \A o \in Groups : Cardinality(work[r][o]) \in Nat
      BY <1>2, FS_CardinalityType DEF MakerFits
    <3>3. Cardinality(w.categories) + Cardinality(w.suppliers) = q.report
      <4>1. Cardinality(work[r].categories) + Cardinality(work[r].suppliers) = p.report
        BY <1>1, <1>2 DEF ImportFits, New
      <4>2. CASE t = "categories"
        <5>1. w.suppliers = work[r].suppliers
          BY <2>5, <4>2 DEF Tables
        <5> QED BY <2>4, <3>1, <3>2, <4>1, <4>2, <5>1 DEF Groups
      <4>3. CASE t = "suppliers"
        <5>1. w.categories = work[r].categories
          BY <2>5, <4>3 DEF Tables
        <5> QED BY <2>4, <3>1, <3>2, <4>1, <4>3, <5>1 DEF Groups
      <4> QED BY <4>2, <4>3 DEF Groups
    <3>4. w.items = {}
      BY <1>3, <2>5 DEF Groups, Tables
    <3>5. {g.id[2] : g \in w.items} = {q.rows[n].line : n \in 1..(q.at - 1)}
      BY <1>3, <2>4, <3>4
    <3>6. q.step = "new suppliers" => AllKnown(q, "categories")
      BY <1>1, <1>2, <2>4 DEF ImportFits, Groups, Tables, New, AllKnown
    <3> QED BY <1>1, <1>3, <2>4, <3>3, <3>5, <3>6 DEF ImportFits, New
  <2>8. Fits(r, q, w, db)
    BY <1>1, <1>2, <2>3, <2>4, <2>6, <2>7 DEF Fits, New
  <2> QED BY <1>1, <2>2, <2>4, <2>5, <2>8, RequestGoesOn
<1> QED BY <1>5, <1>6

\* A row of a file, or of a request of one row, as the item it becomes.
LEMMA ImportItemKeeps ==
  ASSUME CatalogueInv, NEW r \in Requests, ImportItem(r)
  PROVE  CatalogueInv'
<1> DEFINE p == reqs[r]
           row == p.rows[p.at]
           item == ItemOf(r, row)
           s == IF p.at = Len(p.rows) THEN "commit" ELSE p.step
           q == [p EXCEPT !.at = p.at + 1, !.step = s]
           w == Inserted(work[r], "items", item)
<1>1. /\ Fits(r, p, work[r], db) /\ p \in RequestType /\ work[r] \in Store
      /\ p.step = "items" /\ p.op \in {"import", "create"} /\ UNCHANGED <<db, patched>>
  BY StepTells DEF ImportItem, At
<1>2. /\ MakerFits(r, p, work[r], db) /\ p.reply = "none"
      /\ p.op = "import" => ImportFits(r, p, work[r], db)
      /\ p.op = "create" => CreateFits(p)
  BY <1>1 DEF Fits
<1>3. p.at \in 1..Len(p.rows) /\ Len(p.rows) \in Nat /\ p.rows \in Seq(AskedRow)
  <2>1. p.rows \in Seq(AskedRow) /\ Len(p.rows) \in Nat
    BY <1>1 DEF RequestType
  <2>2. p.at \in 1..Len(p.rows)
    BY <1>1, <1>2 DEF ImportFits, CreateFits
  <2> QED BY <2>1, <2>2
<1>4. row \in AskedRow
  BY <1>3
<1>5. s \in {"items", "commit"}
  BY <1>1
<1>6. reqs' = [reqs EXCEPT ![r] = q] /\ work' = [work EXCEPT ![r] = w]
  <2>1. reqs \in [Requests -> RequestType] /\ work \in [Requests -> Store]
    BY DEF CatalogueInv, CatalogueTypes
  <2>2. work' = [work EXCEPT ![r] = w]
    <3> HIDE DEF item
    <3>1. work' = [work EXCEPT ![r]["items"] = @ \cup {item}]
      BY DEF ImportItem, Insert, item
    <3> QED BY <2>1, <3>1 DEF Inserted
  <2>3. reqs' = [reqs EXCEPT ![r] = q]
    BY <1>1, <2>1 DEF ImportItem
  <2> QED BY <2>2, <2>3
<1> HIDE DEF s
<1>7. /\ q \in RequestType /\ q.step = s /\ q.at = p.at + 1
      /\ q.op = p.op /\ q.rows = p.rows /\ q.known = p.known
      /\ q.change = p.change /\ q.item = p.item /\ q.reply = p.reply /\ q.report = p.report
  <2>1. p.at + 1 \in Nat \ {0}
    BY <1>3
  <2>5. s \in ImportStages
    BY <1>5 DEF ImportStages
  <2>2. \A n \in Nat \ {0}, e \in ImportStages : [p EXCEPT !.at = n, !.step = e] \in RequestType
    <3> HIDE DEF p
    <3> QED BY <1>1 DEF RequestType
  <2>3. q \in RequestType
    BY <2>1, <2>2, <2>5, Zenon
  <2>4. /\ q.step = s /\ q.at = p.at + 1 /\ q.op = p.op /\ q.rows = p.rows
        /\ q.known = p.known /\ q.change = p.change /\ q.item = p.item
        /\ q.reply = p.reply /\ q.report = p.report
    <3> HIDE DEF p
    <3> QED BY <1>1 DEF RequestType
  <2> QED BY <2>3, <2>4
<1> HIDE DEF q, row
<1>8. \A t \in Groups : AllKnown(p, t) => AllKnown(q, t)
  BY <1>7 DEF AllKnown
<1>9. /\ Resolved(p.known.categories, row.category) \in p.known.categories \cup {None}
      /\ Resolved(p.known.suppliers, row.supplier) \in p.known.suppliers \cup {None}
  <2>1. CASE p.op = "create"
    <3>1. row.category = None /\ row.supplier = None
      BY <1>1, <1>2, <2>1 DEF CreateFits, row
    <3> QED BY <3>1 DEF Resolved
  <2>2. CASE p.op = "import"
    <3>1. AllKnown(p, "categories") /\ AllKnown(p, "suppliers")
      BY <1>1, <1>2, <2>2 DEF ImportFits
    <3>2. p.at \in DOMAIN p.rows
      BY <1>3
    <3>3. /\ row.category # None => Named(p.known.categories, row.category) # {}
          /\ row.supplier # None => Named(p.known.suppliers, row.supplier) # {}
      BY <3>1, <3>2 DEF AllKnown, Asked, row
    <3> QED BY <3>3 DEF Resolved, Named
  <2> QED BY <1>1, <2>1, <2>2
<1>10. /\ item \in ItemRow /\ item.by = r /\ item.id[1] = r /\ item.id[2] = row.line
       /\ item.category \in p.known.categories \cup {None}
       /\ item.supplier \in p.known.suppliers \cup {None}
  <2>1. p.known \in [Tables -> SUBSET GroupRow] /\ "categories" \in Tables /\ "suppliers" \in Tables
    BY <1>1 DEF RequestType, Tables
  <2>2. /\ Resolved(p.known.categories, row.category) \in GroupRow \cup {None}
        /\ Resolved(p.known.suppliers, row.supplier) \in GroupRow \cup {None}
    BY <1>9, <2>1
  <2>3. /\ row.line \in Nat /\ row.name \in ItemNames \cup {None} /\ row.opening \in Nat
    BY <1>4 DEF AskedRow
  <2> QED BY <1>9, <2>2, <2>3 DEF ItemOf, ItemRow
<1> HIDE DEF item
<1>11. /\ w \in Store /\ w.items = work[r].items \cup {item}
       /\ w.categories = work[r].categories /\ w.suppliers = work[r].suppliers
  <2>1. "items" \in Tables /\ "categories" \in Tables \ {"items"}
        /\ "suppliers" \in Tables \ {"items"}
    BY DEF Tables
  <2> QED BY <1>1, <1>10, <2>1, InsertedRow
<1> HIDE DEF w
<1>12. MakerFits(r, q, w, db)
  <2>1. \A t \in Groups : w[t] = work[r][t]
    BY <1>11 DEF Groups
  <2> QED BY <1>2, <1>7, <1>10, <1>11, <2>1 DEF MakerFits
<1>13. ASSUME p.op = "import" PROVE ImportFits(r, q, w, db)
  <2>1. {i.id[2] : i \in work[r].items} = {p.rows[n].line : n \in 1..(p.at - 1)}
    BY <1>1, <1>2, <1>13 DEF ImportFits
  <2>2. {i.id[2] : i \in w.items} = {i.id[2] : i \in work[r].items} \cup {row.line}
    BY <1>10, <1>11
  <2>3. {q.rows[n].line : n \in 1..(q.at - 1)}
          = {p.rows[n].line : n \in 1..(p.at - 1)} \cup {row.line}
    <3>1. \A n : n \in 1..(q.at - 1) <=> n \in 1..(p.at - 1) \/ n = p.at
      BY <1>3, <1>7
    <3>2. row.line = p.rows[p.at].line /\ q.rows = p.rows
      BY <1>7 DEF row
    <3> QED BY <3>1, <3>2
  <2>4. {i.id[2] : i \in w.items} = {q.rows[n].line : n \in 1..(q.at - 1)}
    BY <2>1, <2>2, <2>3
  <2>5. /\ Cardinality(w.categories) + Cardinality(w.suppliers) = q.report
        /\ q.rows # << >>
    BY <1>1, <1>2, <1>7, <1>11, <1>13 DEF ImportFits
  <2>6. AllKnown(q, "categories") /\ AllKnown(q, "suppliers")
    BY <1>1, <1>2, <1>8, <1>13 DEF ImportFits, Groups
  <2>7. /\ s = "items" => q.at \in 1..Len(q.rows)
        /\ s = "commit" => q.at = Len(q.rows) + 1
    BY <1>1, <1>3, <1>7 DEF s
  <2> QED BY <1>5, <1>7, <2>4, <2>5, <2>6, <2>7 DEF ImportFits
<1>14. ASSUME p.op = "create" PROVE CreateFits(q)
  <2>1. Len(p.rows) = 1 /\ p.at = 1
    BY <1>1, <1>2, <1>14 DEF CreateFits
  <2>2. s = "commit"
    BY <2>1 DEF s
  <2>3. q.step = "commit" /\ q.at = 2 /\ Len(q.rows) = 1 /\ q.known = Nothing
    <3>1. CreateFits(p)
      BY <1>2, <1>14
    <3>2. p.known = Nothing /\ q.known = p.known /\ q.rows = p.rows /\ q.at = p.at + 1
      BY <1>7, <3>1 DEF CreateFits
    <3> QED BY <1>7, <2>1, <2>2, <3>2
  <2> QED BY <2>3 DEF CreateFits
<1>15. Fits(r, q, w, db)
  BY <1>1, <1>2, <1>5, <1>7, <1>12, <1>13, <1>14 DEF Fits, ImportStages
<1> QED BY <1>1, <1>6, <1>7, <1>11, <1>15, RequestGoesOn

LEMMA OneRow ==
  ASSUME NEW S, NEW row \in S
  PROVE  <<row>> \in Seq(S) /\ Len(<<row>>) = 1 /\ <<row>>[1] = row
  OBVIOUS

\* A request of one statement: a group, or an item.
LEMMA StartCreateKeeps ==
  ASSUME CatalogueInv, NEW r \in Requests, StartCreate(r)
  PROVE  CatalogueInv'
<1>1. /\ Fits(r, reqs[r], work[r], db) /\ reqs[r].step = "idle"
      /\ UNCHANGED <<db, work, patched>>
  BY StepTells DEF StartCreate, At
<1>2. work[r] = Nothing /\ reqs[r].reply = "none"
  BY <1>1 DEF Fits
<1>3. work[r] \in Store /\ work' = [work EXCEPT ![r] = work[r]]
  BY <1>1 DEF CatalogueInv, CatalogueTypes
<1>4. ASSUME NEW row \in AskedRow, NEW s \in {"new categories", "new suppliers", "items"},
             s = "items" => row.category = None /\ row.supplier = None,
             s = "new categories" => row.category # None,
             s = "new suppliers" => row.supplier # None,
             reqs' = [reqs EXCEPT ![r] =
                        [Idle EXCEPT !.op = "create", !.step = s, !.rows = <<row>>]]
      PROVE  CatalogueInv'
  <2> DEFINE q == [Idle EXCEPT !.op = "create", !.step = s, !.rows = <<row>>]
  <2>1. <<row>> \in Seq(AskedRow) /\ Len(<<row>>) = 1 /\ <<row>>[1] = row
    BY OneRow, Zenon
  <2>2. \A rows \in Seq(AskedRow) :
          [Idle EXCEPT !.op = "create", !.step = s, !.rows = rows] \in RequestType
    BY IdleRequest DEF RequestType, ImportStages
  <2>3. q \in RequestType
    BY <2>1, <2>2, Zenon
  <2>4. /\ q.op = "create" /\ q.step = s /\ q.rows = <<row>> /\ q.at = 1
        /\ q.known = Nothing /\ q.reply = "none"
    BY DEF Idle
  <2>5. reqs' = [reqs EXCEPT ![r] = q]
    BY <1>4
  <2> HIDE DEF q
  <2>6. CreateFits(q)
    BY <1>4, <2>1, <2>4 DEF CreateFits, Asked
  <2>7. MakerFits(r, q, work[r], db)
    BY <1>2, <2>4, MakerBegins
  <2>8. Fits(r, q, work[r], db)
    BY <1>1, <1>2, <2>4, <2>6, <2>7 DEF Fits
  <2> QED BY <1>1, <1>3, <2>3, <2>4, <2>5, <2>8, RequestGoesOn
<1>5. CASE \E t \in Groups, name \in GroupNames :
             reqs' = [reqs EXCEPT ![r] =
               [Idle EXCEPT !.op = "create", !.step = New(t),
                  !.rows = <<IF t = "categories" THEN Row(None, name, None, 0)
                             ELSE Row(None, None, name, 0)>>]]
  <2>1. PICK t \in Groups, name \in GroupNames :
             reqs' = [reqs EXCEPT ![r] =
               [Idle EXCEPT !.op = "create", !.step = New(t),
                  !.rows = <<IF t = "categories" THEN Row(None, name, None, 0)
                             ELSE Row(None, None, name, 0)>>]]
    BY <1>5
  <2> DEFINE row == IF t = "categories" THEN Row(None, name, None, 0)
                    ELSE Row(None, None, name, 0)
  <2>2. row \in AskedRow
    BY DEF Row, AskedRow
  <2>3. /\ t = "categories" => row.category = name
        /\ t = "suppliers" => row.supplier = name
    BY DEF Row
  <2>4. name # None
    BY CatalogueAssumption
  <2>5. reqs' = [reqs EXCEPT ![r] = [Idle EXCEPT !.op = "create", !.step = New(t), !.rows = <<row>>]]
    BY <2>1
  <2> HIDE DEF row
  <2>6. /\ New(t) = "new categories" => row.category # None
        /\ New(t) = "new suppliers" => row.supplier # None
        /\ New(t) \in {"new categories", "new suppliers"}
    BY <2>3, <2>4 DEF New, Groups
  <2> QED BY <1>4, <2>2, <2>5, <2>6
<1>6. CASE \E name \in ItemNames :
             reqs' = [reqs EXCEPT ![r] =
               [Idle EXCEPT !.op = "create", !.step = "items",
                            !.rows = <<Row(name, None, None, 0)>>]]
  <2>1. PICK name \in ItemNames :
             reqs' = [reqs EXCEPT ![r] =
               [Idle EXCEPT !.op = "create", !.step = "items",
                            !.rows = <<Row(name, None, None, 0)>>]]
    BY <1>6
  <2> DEFINE row == Row(name, None, None, 0)
  <2>2. row \in AskedRow /\ row.category = None /\ row.supplier = None
    BY DEF Row, AskedRow
  <2>3. reqs' = [reqs EXCEPT ![r] = [Idle EXCEPT !.op = "create", !.step = "items", !.rows = <<row>>]]
    BY <2>1
  <2> HIDE DEF row
  <2> QED BY <1>4, <2>2, <2>3
<1> QED BY <1>5, <1>6 DEF StartCreate, Groups

LEMMA CreateGroupKeeps ==
  ASSUME CatalogueInv, NEW r \in Requests, NEW t \in Groups, CreateGroup(r, t)
  PROVE  CatalogueInv'
<1> DEFINE p == reqs[r]
           row == [name |-> NextMissing(r, t), by |-> r]
           q == [p EXCEPT !.step = "commit"]
           w == Inserted(work[r], t, row)
<1>1. /\ Fits(r, p, work[r], db) /\ p \in RequestType /\ work[r] \in Store
      /\ p.step = New(t) /\ p.op = "create" /\ UNCHANGED <<db, patched>>
  BY StepTells DEF CreateGroup, At
<1>2. MakerFits(r, p, work[r], db) /\ CreateFits(p) /\ p.reply = "none"
  BY <1>1 DEF Fits, New
<1>3. Missing(r, t) # {}
  <2>1. Len(p.rows) = 1 /\ Asked(p.rows[1], t) # None
    BY <1>1, <1>2 DEF CreateFits, New, Groups
  <2>2. Named(p.known[t], Asked(p.rows[1], t)) = {}
    <3>1. p.known = Nothing /\ Nothing[t] = {}
      BY <1>2, NothingIsStored DEF CreateFits, Groups, Tables
    <3> QED BY <3>1 DEF Named
  <2>3. 1 \in DOMAIN p.rows
    BY <1>1, <2>1 DEF RequestType
  <2> QED BY <2>1, <2>2, <2>3 DEF Missing
<1>4. row \in GroupRow /\ row.by = r
  BY <1>3, MadeGroup DEF CreateGroup
<1>5. reqs' = [reqs EXCEPT ![r] = q] /\ work' = [work EXCEPT ![r] = w]
  <2>1. reqs \in [Requests -> RequestType] /\ work \in [Requests -> Store]
    BY DEF CatalogueInv, CatalogueTypes
  <2> QED BY <2>1 DEF CreateGroup, Goto, Insert, Inserted
<1> HIDE DEF row
<1>6. /\ q \in RequestType /\ q.step = "commit"
      /\ q.op = p.op /\ q.rows = p.rows /\ q.at = p.at
      /\ q.known = p.known /\ q.change = p.change /\ q.item = p.item
      /\ q.reply = p.reply /\ q.report = p.report
  BY <1>1 DEF RequestType, ImportStages
<1>7. /\ w \in Store /\ w[t] = work[r][t] \cup {row}
      /\ \A o \in Tables \ {t} : w[o] = work[r][o]
  <2>1. work[r] \in Store /\ t \in Tables /\ row \in GroupRow \cup ItemRow
    BY <1>1, <1>4 DEF Tables, Groups
  <2> QED BY <2>1, InsertedRow
<1> HIDE DEF q, w
<1>8. MakerFits(r, q, w, db)
  <2>1. \A o \in Groups : IsFiniteSet(w[o]) /\ \A g \in w[o] : g \in GroupRow /\ g.by = r
    <3>1. \A o \in Groups :
            IsFiniteSet(work[r][o]) /\ \A g \in work[r][o] : g \in GroupRow /\ g.by = r
      BY <1>2 DEF MakerFits
    <3>2. PICK v : v = work[r]
      OBVIOUS
    <3>3. /\ w[t] = v[t] \cup {row} /\ \A o \in Tables \ {t} : w[o] = v[o]
          /\ \A o \in Groups : IsFiniteSet(v[o]) /\ \A g \in v[o] : g \in GroupRow /\ g.by = r
      BY <1>7, <3>1, <3>2, Zenon
    <3> QED BY <1>4, <3>3, GroupsWithOneMore
  <2>2. w.items = work[r].items
    BY <1>7 DEF Groups, Tables
  <2>3. \A o \in Groups : q.known[o] \subseteq db[o] \cup w[o]
    BY <1>2, <1>6, <1>7 DEF MakerFits, Groups, Tables
  <2> QED BY <1>2, <1>6, <2>1, <2>2, <2>3 DEF MakerFits
<1>9. CreateFits(q)
  BY <1>2, <1>6 DEF CreateFits
<1>10. Fits(r, q, w, db)
  BY <1>1, <1>2, <1>6, <1>8, <1>9 DEF Fits, New
<1> QED BY <1>1, <1>5, <1>6, <1>7, <1>10, RequestGoesOn

LEMMA StartUpdateKeeps ==
  ASSUME CatalogueInv, NEW r \in Requests, StartUpdate(r)
  PROVE  CatalogueInv'
<1>1. /\ Fits(r, reqs[r], work[r], db) /\ reqs[r].step = "idle"
      /\ UNCHANGED <<db, work, patched>>
  BY StepTells DEF StartUpdate, At
<1>2. work[r] = Nothing /\ reqs[r].reply = "none" /\ CatalogueTypes
  BY <1>1 DEF Fits, CatalogueInv
<1>3. work[r] \in Store /\ work' = [work EXCEPT ![r] = work[r]]
  BY <1>1, <1>2 DEF CatalogueTypes
<1>4. PICK row \in db.items :
        \E change \in [field : {"name"}, value : ItemNames]
                        \cup [field : {"category"}, value : db.categories]
                        \cup [field : {"supplier"}, value : db.suppliers]
                        \cup [field : {"archived"}, value : {TRUE}] :
          reqs' = [reqs EXCEPT ![r] =
            [Idle EXCEPT !.op = "update", !.step = "update", !.item = row, !.change = change]]
  BY DEF StartUpdate
<1>5. PICK change \in [field : {"name"}, value : ItemNames]
                        \cup [field : {"category"}, value : db.categories]
                        \cup [field : {"supplier"}, value : db.suppliers]
                        \cup [field : {"archived"}, value : {TRUE}] :
          reqs' = [reqs EXCEPT ![r] =
            [Idle EXCEPT !.op = "update", !.step = "update", !.item = row, !.change = change]]
  BY <1>4
<1>6. db.categories \subseteq GroupRow /\ db.suppliers \subseteq GroupRow
  BY <1>2 DEF CatalogueTypes, Groups
<1>7. /\ change \in Changes
      /\ change.field = "category" => change.value \in db.categories
      /\ change.field = "supplier" => change.value \in db.suppliers
  BY <1>6 DEF Changes
<1>8. row \in ItemRow
  BY <1>2 DEF CatalogueTypes
<1> DEFINE q == [Idle EXCEPT !.op = "update", !.step = "update", !.item = row, !.change = change]
<1>9. /\ q \in RequestType /\ q.op = "update" /\ q.step = "update" /\ q.item = row
      /\ q.change = change /\ q.reply = "none"
  BY <1>7, <1>8, IdleRequest DEF RequestType
<1>10. reqs' = [reqs EXCEPT ![r] = q]
  BY <1>5
<1> HIDE DEF q
<1>11. UpdateFits(q, work[r], db)
  BY <1>2, <1>7, <1>8, <1>9 DEF UpdateFits
<1>12. Fits(r, q, work[r], db)
  BY <1>1, <1>2, <1>9, <1>11 DEF Fits
<1> QED BY <1>1, <1>3, <1>9, <1>10, <1>12, RequestGoesOn

\* A change of one field leaves the others.
LEMMA ChangeOfOneField ==
  ASSUME NEW row \in ItemRow, NEW change \in Changes
  PROVE  /\ ChangedRow(row, change) \in ItemRow
         /\ ChangedRow(row, change).id = row.id /\ ChangedRow(row, change).by = row.by
         /\ ChangedRow(row, change)[change.field] = change.value
         /\ \A f \in {"name", "category", "supplier", "archived"} \ {change.field} :
              ChangedRow(row, change)[f] = row[f]
<1>1. CASE change \in [field : {"name"}, value : ItemNames]
  BY <1>1 DEF ChangedRow, ItemRow
<1>2. CASE change \in [field : {"category", "supplier"}, value : GroupRow]
  BY <1>2 DEF ChangedRow, ItemRow
<1>3. CASE change \in [field : {"archived"}, value : {TRUE}]
  BY <1>3 DEF ChangedRow, ItemRow
<1> QED BY <1>1, <1>2, <1>3 DEF Changes

LEMMA UpdateItemKeeps ==
  ASSUME CatalogueInv, NEW r \in Requests, UpdateItem(r)
  PROVE  CatalogueInv'
<1> DEFINE p == reqs[r]
           base == CHOOSE row \in db.items : row.id = p.item.id
           new == UpdatedRow(r)
           q == [p EXCEPT !.step = "commit"]
           w == Inserted(work[r], "items", new)
<1>1. /\ Fits(r, p, work[r], db) /\ p \in RequestType /\ work[r] \in Store
      /\ p.step = "update" /\ p.op = "update" /\ UNCHANGED <<db, patched>>
      /\ RowPending(r, p.item.id) = {}
  BY StepTells DEF UpdateItem, At
<1>2. UpdateFits(p, work[r], db) /\ p.reply = "none"
  BY <1>1 DEF Fits
<1>3. base \in db.items /\ base.id = p.item.id
  BY <1>2 DEF UpdateFits
<1>4. base \in ItemRow
  BY <1>3 DEF CatalogueInv, CatalogueTypes
<1>5. new = ChangedRow(base, p.change)
  BY DEF UpdatedRow
<1> HIDE DEF base, new
<1>6. new \in ItemRow
  BY <1>2, <1>4, <1>5, ChangeOfOneField DEF UpdateFits
<1>7. reqs' = [reqs EXCEPT ![r] = q] /\ work' = [work EXCEPT ![r] = w]
  <2>1. reqs \in [Requests -> RequestType] /\ work \in [Requests -> Store]
    BY DEF CatalogueInv, CatalogueTypes
  <2> QED BY <2>1 DEF UpdateItem, Goto, Insert, Inserted, new
<1>8. /\ q \in RequestType /\ q.step = "commit"
      /\ q.op = p.op /\ q.change = p.change /\ q.item = p.item /\ q.reply = p.reply
  <2>1. "commit" \in ImportStages
    BY DEF ImportStages
  <2>2. q \in RequestType
    BY <1>1, <2>1 DEF RequestType
  <2>3. /\ q.step = "commit" /\ q.op = p.op /\ q.change = p.change
        /\ q.item = p.item /\ q.reply = p.reply
    BY <1>1 DEF RequestType
  <2> QED BY <2>2, <2>3
<1>9. work[r] = Nothing
  BY <1>1, <1>2 DEF UpdateFits
<1>10. w \in Store /\ w.items = {new} /\ w.categories = {} /\ w.suppliers = {}
  <2>1. "items" \in Tables /\ "categories" \in Tables \ {"items"}
        /\ "suppliers" \in Tables \ {"items"}
    BY DEF Tables
  <2>2. Nothing.items = {} /\ Nothing.categories = {} /\ Nothing.suppliers = {}
    BY DEF Nothing, Tables
  <2> QED BY <1>1, <1>6, <1>9, <2>1, <2>2, InsertedRow
<1> HIDE DEF q, w
<1>11. UpdateFits(q, w, db)
  BY <1>2, <1>3, <1>5, <1>8, <1>10 DEF UpdateFits
<1>12. Fits(r, q, w, db)
  BY <1>1, <1>2, <1>8, <1>11 DEF Fits
<1> QED BY <1>1, <1>7, <1>8, <1>10, <1>12, RequestGoesOn

\* A transaction that is rolled back leaves nothing.
LEMMA RollbackKeeps ==
  ASSUME CatalogueInv, NEW r \in Requests, NEW reply \in {"taken", "error"},
         reqs[r].step \notin {"idle", "done"}, Rollback(r, reply)
  PROVE  CatalogueInv'
<1> DEFINE p == reqs[r]
           q == [p EXCEPT !.step = "done", !.reply = reply]
<1>1. /\ Fits(r, p, work[r], db) /\ p \in RequestType /\ UNCHANGED <<db, patched>>
  BY StepTells DEF Rollback
<1>2. /\ p.reply = "none"
      /\ p.op = "import" => ImportFits(r, p, work[r], db)
      /\ p.op = "create" => CreateFits(p)
      /\ p.op = "update" => UpdateFits(p, work[r], db)
  BY <1>1 DEF Fits
<1>3. reqs' = [reqs EXCEPT ![r] = q] /\ work' = [work EXCEPT ![r] = Nothing]
  BY DEF CatalogueInv, CatalogueTypes, Rollback, Answer
<1>4. /\ q \in RequestType /\ q.step = "done" /\ q.reply = reply
      /\ q.op = p.op /\ q.rows = p.rows /\ q.at = p.at /\ q.known = p.known
      /\ q.change = p.change /\ q.item = p.item
  BY <1>1 DEF RequestType, ImportStages
<1> HIDE DEF q
<1>5. p.op = "import" => ImportFits(r, q, Nothing, db)
  BY <1>4 DEF ImportFits
<1>6. p.op = "create" => CreateFits(q)
  BY <1>2, <1>4 DEF CreateFits
<1>7. p.op = "update" => UpdateFits(q, Nothing, db)
  BY <1>2, <1>4 DEF UpdateFits
<1>8. Fits(r, q, Nothing, db)
  BY <1>1, <1>2, <1>4, <1>5, <1>6, <1>7 DEF Fits, ImportStages
<1> QED BY <1>1, <1>3, <1>4, <1>8, NothingIsStored, RequestGoesOn

\* Who waits for a row, or finds a name taken, is in the middle of its transaction.
LEMMA WaitingGoesOn ==
  ASSUME NEW r \in Requests, Inserts(r) # {} \/ At(r, "update")
  PROVE  reqs[r].step \notin {"idle", "done"}
  BY DEF Inserts, At

LEMMA RequestEnds ==
  ASSUME CatalogueInv, NEW r \in Requests, Conflict(r) \/ Deadlock(r) \/ Abandon(r)
  PROVE  CatalogueInv'
<1>1. CASE Conflict(r)
  <2>1. Inserts(r) # {}
    BY <1>1 DEF Conflict, NameTaken
  <2> QED BY <1>1, <2>1, WaitingGoesOn, RollbackKeeps DEF Conflict
<1>2. CASE Deadlock(r)
  <2>1. WaitsFor(r) # {}
    BY <1>2 DEF Deadlock
  <2>2. Inserts(r) # {} \/ At(r, "update")
    BY <2>1 DEF WaitsFor
  <2> QED BY <1>2, <2>2, WaitingGoesOn, RollbackKeeps DEF Deadlock
<1>3. CASE Abandon(r)
  BY <1>3, RollbackKeeps DEF Abandon
<1> QED BY <1>1, <1>2, <1>3

-----------------------------------------------------------------------------
(* The commit of a request.                                                 *)

\* What is committed: with the rows a request has made, or with the row it has
\* changed in the place of those that have its id.
LEMMA CommitPublishes ==
  ASSUME CatalogueInv, NEW r \in Requests, Commit(r)
  PROVE  /\ \A t \in Groups : db'[t] = db[t] \cup work[r][t]
         /\ db'.items = {row \in db.items : \A own \in work[r].items : own.id # row.id}
                          \cup work[r].items
         /\ db' \in Store
         /\ reqs[r].op \in {"import", "create"} =>
              /\ db'.items = db.items \cup work[r].items
              /\ \A row \in db.items : row.by # r /\ row.id[1] # r
<1>1. /\ Fits(r, reqs[r], work[r], db) /\ reqs[r] \in RequestType /\ work[r] \in Store
      /\ reqs[r].step = "commit" /\ db \in Store
  BY StepTells DEF Commit, At, CatalogueInv, CatalogueTypes
<1>2. db' = [t \in Tables |-> Committed(r, t)]
  BY DEF Commit
<1>3. /\ "items" \in Tables /\ Groups \subseteq Tables /\ \A t \in Groups : t # "items"
  BY DEF Tables, Groups
<1>4. \A t \in Groups : db'[t] = db[t] \cup work[r][t]
  BY <1>2, <1>3 DEF Committed
<1>5. db'.items = {row \in db.items : \A own \in work[r].items : own.id # row.id}
                    \cup work[r].items
  BY <1>2, <1>3 DEF Committed
<1>6. db' \in Store
  <2>1. \A t \in Tables : Committed(r, t) \subseteq db[t] \cup work[r][t]
    BY DEF Committed
  <2>2. \A t \in Tables : Committed(r, t) \subseteq GroupRow \cup ItemRow
    BY <1>1, <2>1 DEF Store
  <2> QED BY <1>2, <2>2 DEF Store
<1>7. ASSUME reqs[r].op \in {"import", "create"}
      PROVE  /\ db'.items = db.items \cup work[r].items
             /\ \A row \in db.items : row.by # r /\ row.id[1] # r
  <2>1. MakerFits(r, reqs[r], work[r], db) /\ reqs[r].reply = "none"
    BY <1>1, <1>7 DEF Fits
  <2>2. \A row \in db.items : row.by # r /\ row.id[1] # r
    BY <1>1, <1>3, <2>1 DEF Fits, CatalogueInv, CatalogueTypes
  <2>3. \A own \in work[r].items : own.id[1] = r
    BY <2>1 DEF MakerFits
  <2>4. \A row \in db.items : \A own \in work[r].items : own.id # row.id
    BY <2>2, <2>3
  <2> QED BY <1>5, <2>2, <2>4
<1> QED BY <1>4, <1>5, <1>6, <1>7

\* An update puts one row in the place of one with its id and its maker.
LEMMA CommitChanges ==
  ASSUME CatalogueInv, NEW r \in Requests, Commit(r), reqs[r].op = "update"
  PROVE  /\ UpdateFits(reqs[r], work[r], db)
         /\ \A t \in Groups : db'[t] = db[t]
         /\ \E base \in db.items :
              LET new == ChangedRow(base, reqs[r].change)
              IN  /\ base.id = reqs[r].item.id /\ new.id = base.id /\ new.by = base.by
                  /\ base \in ItemRow /\ new \in ItemRow
                  /\ db'.items = {row \in db.items : row.id # base.id} \cup {new}
<1>1. UpdateFits(reqs[r], work[r], db) /\ reqs[r].step = "commit"
  BY StepTells DEF Commit, At, Fits
<1>2. \A t \in Groups : db'[t] = db[t]
  <2>1. \A t \in Groups : work[r][t] = {}
    BY <1>1 DEF UpdateFits, Groups
  <2>2. \A t \in Groups : db'[t] = db[t] \cup work[r][t]
    BY CommitPublishes
  <2>3. ASSUME NEW t \in Groups PROVE db'[t] = db[t]
    BY <2>1, <2>2
  <2> QED BY <2>3
<1>3. PICK base \in db.items :
         base.id = reqs[r].item.id /\ work[r].items = {ChangedRow(base, reqs[r].change)}
  BY <1>1 DEF UpdateFits
<1>4. base \in ItemRow /\ reqs[r].change \in Changes
  BY <1>1 DEF CatalogueInv, CatalogueTypes, UpdateFits
<1> DEFINE new == ChangedRow(base, reqs[r].change)
<1>5. new \in ItemRow /\ new.id = base.id /\ new.by = base.by
  BY <1>4, ChangeOfOneField
<1>6. work[r].items = {new}
  BY <1>3
<1> HIDE DEF new
<1>7. db'.items = {row \in db.items : row.id # base.id} \cup {new}
  BY <1>5, <1>6, CommitPublishes
<1> QED BY <1>1, <1>2, <1>3, <1>4, <1>5, <1>7 DEF new

\* Groups are not lost, nor are the ids of items.
LEMMA CommitKeeps ==
  ASSUME CatalogueInv, NEW r \in Requests, Commit(r)
  PROVE  /\ \A t \in Groups : db[t] \subseteq db'[t]
         /\ \A row \in db.items : \E new \in db'.items : new.id = row.id
         /\ \A row \in db.items :
              ~ (reqs[r].op = "update" /\ row.id = reqs[r].item.id) => row \in db'.items
<1>1. CASE reqs[r].op = "update"
  BY <1>1, CommitChanges
<1>2. CASE reqs[r].op # "update"
  <2>1. reqs[r].op \in {"import", "create"}
    BY <1>2, StepTells DEF Commit, At
  <2> QED BY <2>1, CommitPublishes
<1> QED BY <1>1, <1>2

\* What a request of another has made is as it was.
LEMMA OthersRows ==
  ASSUME CatalogueInv, NEW r \in Requests, Commit(r), NEW o \in Requests, o # r
  PROVE  /\ \A t \in Groups : {row \in db'[t] : row.by = o} = {row \in db[t] : row.by = o}
         /\ {row.id[2] : row \in {x \in db'.items : x.by = o}}
              = {row.id[2] : row \in {x \in db.items : x.by = o}}
         /\ \A row \in db'.items : row.by = o => \E x \in db.items : x.by = o
<1>1. CASE reqs[r].op = "update"
  <2>1. PICK base \in db.items :
          LET new == ChangedRow(base, reqs[r].change)
          IN  /\ new.id = base.id /\ new.by = base.by
              /\ db'.items = {row \in db.items : row.id # base.id} \cup {new}
    BY <1>1, CommitChanges
  <2> DEFINE new == ChangedRow(base, reqs[r].change)
  <2>2. /\ new.id = base.id /\ new.by = base.by
        /\ db'.items = {row \in db.items : row.id # base.id} \cup {new}
    BY <2>1
  <2> HIDE DEF new
  <2>3. \A row \in db.items : row.id = base.id => row.by = base.by
    BY DEF CatalogueInv, CatalogueTypes
  <2>4. ASSUME NEW n
        PROVE  (\E row \in db'.items : row.by = o /\ row.id[2] = n)
                 <=> (\E row \in db.items : row.by = o /\ row.id[2] = n)
    <3>1. ASSUME NEW row \in db'.items, row.by = o, row.id[2] = n
          PROVE  \E x \in db.items : x.by = o /\ x.id[2] = n
      BY <2>2, <3>1
    <3>2. ASSUME NEW row \in db.items, row.by = o, row.id[2] = n
          PROVE  \E x \in db'.items : x.by = o /\ x.id[2] = n
      BY <2>2, <2>3, <3>2
    <3> QED BY <3>1, <3>2
  <2>5. {row.id[2] : row \in {x \in db'.items : x.by = o}}
          = {row.id[2] : row \in {x \in db.items : x.by = o}}
    <3>1. ASSUME NEW S, NEW T,
                 \A n : (\E row \in S : row.by = o /\ row.id[2] = n)
                          <=> (\E row \in T : row.by = o /\ row.id[2] = n)
          PROVE  {row.id[2] : row \in {x \in S : x.by = o}}
                   = {row.id[2] : row \in {x \in T : x.by = o}}
      <4> DEFINE A(U) == {row.id[2] : row \in {x \in U : x.by = o}}
      <4>1. ASSUME NEW U, NEW n
            PROVE  n \in A(U) <=> \E row \in U : row.by = o /\ row.id[2] = n
        OBVIOUS
      <4>2. \A n : n \in A(S) <=> n \in A(T)
        <5> HIDE DEF A
        <5> QED BY <3>1, <4>1
      <4>3. A(S) = A(T)
        <5> HIDE DEF A
        <5> QED BY <4>2
      <4> QED BY <4>3
    <3> QED BY <2>4, <3>1
  <2>6. \A t \in Groups : db'[t] = db[t]
    BY <1>1, CommitChanges
  <2>7. \A row \in db'.items : row.by = o => \E x \in db.items : x.by = o
    BY <2>2
  <2> QED BY <2>5, <2>6, <2>7
<1>2. CASE reqs[r].op # "update"
  <2>1. reqs[r].op \in {"import", "create"}
    BY <1>2, StepTells DEF Commit, At
  <2>2. MakerFits(r, reqs[r], work[r], db)
    BY <2>1, StepTells DEF Fits, Commit, At
  <2>3. /\ \A t \in Groups : \A row \in work[r][t] : row.by # o
        /\ \A row \in work[r].items : row.by # o
    BY <2>2 DEF MakerFits
  <2>4. /\ \A t \in Groups : db'[t] = db[t] \cup work[r][t]
        /\ db'.items = db.items \cup work[r].items
    BY <2>1, CommitPublishes
  <2>5. {x \in db'.items : x.by = o} = {x \in db.items : x.by = o}
    BY <2>3, <2>4
  <2> QED BY <2>3, <2>4, <2>5
<1> QED BY <1>1, <1>2

\* The request that commits ends, and its transaction with it.
LEMMA CommitAnswers ==
  ASSUME CatalogueInv, NEW r \in Requests, Commit(r)
  PROVE  /\ work'[r] = Nothing /\ reqs'[r] \in RequestType
         /\ reqs' \in [Requests -> RequestType] /\ work' \in [Requests -> Store]
         /\ reqs'[r].step = "done" /\ reqs'[r].reply = "done"
         /\ reqs'[r].op = reqs[r].op /\ reqs'[r].rows = reqs[r].rows
         /\ reqs'[r].at = reqs[r].at /\ reqs'[r].known = reqs[r].known
         /\ reqs'[r].change = reqs[r].change /\ reqs'[r].item = reqs[r].item
         /\ reqs'[r].report = reqs[r].report
         /\ \A o \in Requests \ {r} : reqs'[o] = reqs[o] /\ work'[o] = work[o]
<1> DEFINE q == [reqs[r] EXCEPT !.step = "done", !.reply = "done"]
<1>1. /\ reqs \in [Requests -> RequestType] /\ work \in [Requests -> Store]
      /\ reqs[r] \in RequestType
  BY DEF CatalogueInv, CatalogueTypes
<1>2. reqs' = [reqs EXCEPT ![r] = q] /\ work' = [work EXCEPT ![r] = Nothing]
  BY <1>1 DEF Commit, Answer
<1>3. /\ q \in RequestType /\ q.step = "done" /\ q.reply = "done"
      /\ q.op = reqs[r].op /\ q.rows = reqs[r].rows /\ q.at = reqs[r].at
      /\ q.known = reqs[r].known /\ q.change = reqs[r].change /\ q.item = reqs[r].item
      /\ q.report = reqs[r].report
  BY <1>1 DEF RequestType, ImportStages
<1> HIDE DEF q
<1> QED BY <1>1, <1>2, <1>3, NothingIsStored

\* Every row of an item keeps an id of its maker.
LEMMA CommitKeepsTypes ==
  ASSUME CatalogueInv, NEW r \in Requests, Commit(r)
  PROVE  CatalogueTypes'
<1>1. CatalogueTypes
  BY DEF CatalogueInv
<1>2. CASE reqs[r].op = "update"
  <2>1. PICK base \in db.items :
          LET new == ChangedRow(base, reqs[r].change)
          IN  /\ base.id = reqs[r].item.id /\ new.id = base.id /\ new.by = base.by
              /\ base \in ItemRow /\ new \in ItemRow
              /\ db'.items = {row \in db.items : row.id # base.id} \cup {new}
    BY <1>2, CommitChanges
  <2> DEFINE new == ChangedRow(base, reqs[r].change)
  <2>2. /\ new.id = base.id /\ new.by = base.by /\ new \in ItemRow
        /\ db'.items = {row \in db.items : row.id # base.id} \cup {new}
    BY <2>1
  <2> HIDE DEF new
  <2>3. \A row \in db'.items : row \in ItemRow /\ row.id[1] = row.by
    BY <1>1, <2>2 DEF CatalogueTypes
  <2>4. \A t \in Groups : db'[t] \subseteq GroupRow
    BY <1>1, <1>2, CommitChanges DEF CatalogueTypes
  <2> QED BY <2>3, <2>4, CommitAnswers, CommitPublishes DEF CatalogueTypes
<1>3. CASE reqs[r].op # "update"
  <2>1. reqs[r].op \in {"import", "create"}
    BY <1>3, StepTells DEF Commit, At
  <2>2. MakerFits(r, reqs[r], work[r], db)
    BY <2>1, StepTells DEF Fits, Commit, At
  <2>3. /\ db'.items = db.items \cup work[r].items
        /\ \A t \in Groups : db'[t] = db[t] \cup work[r][t]
    BY <2>1, CommitPublishes
  <2>4. \A row \in db'.items : row \in ItemRow /\ row.id[1] = row.by
    BY <1>1, <2>2, <2>3 DEF CatalogueTypes, MakerFits
  <2>5. \A t \in Groups : db'[t] \subseteq GroupRow
    <3>1. \A t \in Groups : db[t] \subseteq GroupRow /\ work[r][t] \subseteq GroupRow
      BY <1>1, <2>2 DEF CatalogueTypes, MakerFits
    <3> QED BY <2>3, <3>1
  <2> QED BY <2>4, <2>5, CommitAnswers, CommitPublishes DEF CatalogueTypes
<1> QED BY <1>2, <1>3

\* An import that was answered as done has all its rows after another commits.
LEMMA CommitLeavesImports ==
  ASSUME CatalogueInv, NEW r \in Requests, Commit(r), NEW o \in Requests, o # r,
         reqs[o].op = "import", reqs[o].reply = "done"
  PROVE  ImportStands(o, reqs[o], db')
<1>1. ImportStands(o, reqs[o], db)
  BY DEF CatalogueInv, Fits
<1>2. /\ {row.id[2] : row \in {x \in db'.items : x.by = o}}
           = {row.line : row \in Range(reqs[o].rows)}
      /\ \A t \in Groups : {row \in db'[t] : row.by = o} = {row \in db[t] : row.by = o}
  BY <1>1, OthersRows DEF ImportStands
<1>3. Cardinality({x \in db'.categories : x.by = o})
        + Cardinality({x \in db'.suppliers : x.by = o}) = reqs[o].report
  BY <1>1, <1>2 DEF ImportStands, Groups
<1>4. db.categories \subseteq db'.categories /\ db.suppliers \subseteq db'.suppliers
  BY CommitKeeps DEF Groups
<1>5. ASSUME NEW row \in db'.items, row.by = o
      PROVE  /\ row.category \in db'.categories \cup {None}
             /\ row.supplier \in db'.suppliers \cup {None}
  <2>1. CASE row \in db.items
    BY <1>1, <1>4, <1>5, <2>1 DEF ImportStands
  <2>2. CASE row \notin db.items /\ reqs[r].op = "update"
    <3>1. PICK base \in db.items :
            LET new == ChangedRow(base, reqs[r].change)
            IN  /\ new.by = base.by /\ base \in ItemRow
                /\ db'.items = {x \in db.items : x.id # base.id} \cup {new}
      BY <2>2, CommitChanges
    <3>2. row = ChangedRow(base, reqs[r].change) /\ base.by = o
      BY <1>5, <2>2, <3>1
    <3>3. UpdateFits(reqs[r], work[r], db)
      BY <2>2, CommitChanges
    <3>4. /\ reqs[r].change \in Changes
          /\ reqs[r].change.field = "category" => reqs[r].change.value \in db.categories
          /\ reqs[r].change.field = "supplier" => reqs[r].change.value \in db.suppliers
      BY <3>3 DEF UpdateFits
    <3>5. /\ base.category \in db.categories \cup {None}
          /\ base.supplier \in db.suppliers \cup {None}
      BY <1>1, <3>2 DEF ImportStands
    <3>6. row.category = base.category
            \/ (reqs[r].change.field = "category" /\ row.category = reqs[r].change.value)
      BY <3>1, <3>2, <3>4, ChangeOfOneField
    <3>7. row.supplier = base.supplier
            \/ (reqs[r].change.field = "supplier" /\ row.supplier = reqs[r].change.value)
      BY <3>1, <3>2, <3>4, ChangeOfOneField
    <3> QED BY <1>4, <3>4, <3>5, <3>6, <3>7
  <2>3. CASE row \notin db.items /\ reqs[r].op # "update"
    <3>1. reqs[r].op \in {"import", "create"}
      BY <2>3, StepTells DEF Commit, At
    <3>2. row \in work[r].items
      BY <2>3, <3>1, CommitPublishes
    <3>3. row.by = r
      BY <3>1, <3>2, StepTells DEF Fits, MakerFits, Commit, At
    <3> QED BY <1>5, <3>3
  <2> QED BY <2>1, <2>2, <2>3
<1> QED BY <1>2, <1>3, <1>5 DEF ImportStands

\* Two transactions do not change one item.
LEMMA CommitLeavesUpdates ==
  ASSUME CatalogueInv, NEW r \in Requests, Commit(r), NEW o \in Requests, o # r,
         reqs[o].op = "update"
  PROVE  UpdateFits(reqs[o], work[o], db')
<1>1. UpdateFits(reqs[o], work[o], db)
  BY DEF CatalogueInv, Fits
<1>2. db.categories \subseteq db'.categories /\ db.suppliers \subseteq db'.suppliers
  BY CommitKeeps DEF Groups
<1>3. \E row \in db'.items : row.id = reqs[o].item.id
  BY <1>1, CommitKeeps DEF UpdateFits
<1>4. ASSUME reqs[o].step = "commit"
      PROVE  \E row \in db'.items :
               row.id = reqs[o].item.id /\ work[o].items = {ChangedRow(row, reqs[o].change)}
  <2>1. PICK row \in db.items :
          row.id = reqs[o].item.id /\ work[o].items = {ChangedRow(row, reqs[o].change)}
    BY <1>1, <1>4 DEF UpdateFits
  <2>2. ~ (reqs[r].op = "update" /\ row.id = reqs[r].item.id)
    BY <1>4, <2>1 DEF CatalogueInv, UpdatesApart, Commit, At
  <2> QED BY <2>1, <2>2, CommitKeeps
<1> QED BY <1>1, <1>2, <1>3, <1>4 DEF UpdateFits

\* A commit leaves every other request as it was.
LEMMA CommitLeavesOthers ==
  ASSUME CatalogueInv, NEW r \in Requests, Commit(r), NEW o \in Requests, o # r
  PROVE  Fits(o, reqs[o], work[o], db')
<1> DEFINE p == reqs[o]
<1>1. Fits(o, p, work[o], db)
  BY DEF CatalogueInv
<1>2. ASSUME p.reply # "done"
      PROVE  \A t \in Tables : \A row \in db'[t] : row.by # o
  <2>1. \A t \in Tables : \A row \in db[t] : row.by # o
    BY <1>1, <1>2 DEF Fits
  <2>2. \A t \in Groups : \A row \in db'[t] : row.by # o
    <3>1. ASSUME NEW t \in Groups, NEW row \in db'[t], row.by = o PROVE FALSE
      <4>1. row \in {x \in db[t] : x.by = o}
        <5>1. {x \in db'[t] : x.by = o} = {x \in db[t] : x.by = o}
          BY OthersRows
        <5> QED BY <3>1, <5>1
      <4> QED BY <2>1, <4>1 DEF Groups, Tables
    <3> QED BY <3>1
  <2>3. \A row \in db'.items : row.by # o
    BY <2>1, OthersRows DEF Tables
  <2> QED BY <2>2, <2>3 DEF Groups, Tables
<1>3. ASSUME p.op \in {"import", "create"}, p.step # "done"
      PROVE  MakerFits(o, p, work[o], db')
  <2>1. MakerFits(o, p, work[o], db)
    BY <1>1, <1>3 DEF Fits
  <2>2. \A t \in Groups : p.known[t] \subseteq db'[t] \cup work[o][t]
    <3>1. \A t \in Groups : db[t] \subseteq db'[t]
      BY CommitKeeps
    <3>2. \A t \in Groups : p.known[t] \subseteq db[t] \cup work[o][t]
      BY <2>1 DEF MakerFits
    <3> QED BY <3>1, <3>2
  <2> QED BY <2>1, <2>2 DEF MakerFits
<1>4. p.op = "import" => ImportFits(o, p, work[o], db')
  BY <1>1 DEF Fits, ImportFits
<1>5. p.op = "import" /\ p.reply = "done" => ImportStands(o, p, db')
  BY CommitLeavesImports
<1>6. p.op = "update" => UpdateFits(p, work[o], db')
  BY CommitLeavesUpdates
<1> HIDE DEF p
<1>7. /\ p.step \in {"idle", "done"} => work[o] = Nothing
      /\ (p.step = "done") <=> (p.reply # "none")
      /\ (p.step = "idle") <=> (p.op = "none")
      /\ p.op = "import" => p.step \in ImportStages
      /\ p.op = "create" => CreateFits(p)
  BY <1>1 DEF Fits
<1>8. Fits(o, p, work[o], db')
  BY <1>2, <1>3, <1>4, <1>5, <1>6, <1>7 DEF Fits
<1> QED BY <1>8 DEF p

\* An import that commits has made an item of every row, with its groups.
LEMMA ImportIsDone ==
  ASSUME CatalogueInv, NEW r \in Requests, Commit(r), reqs[r].op = "import"
  PROVE  ImportStands(r, reqs[r], db')
<1> DEFINE p == reqs[r]
           w == work[r]
<1>1. /\ Fits(r, p, w, db) /\ p.step = "commit" /\ p.reply = "none" /\ p \in RequestType
  BY StepTells DEF Commit, At, Fits
<1>2. MakerFits(r, p, w, db) /\ ImportFits(r, p, w, db)
  BY <1>1 DEF Fits
<1>3. \A t \in Tables : \A row \in db[t] : row.by # r
  BY <1>1 DEF Fits
<1>4. /\ \A t \in Groups : db'[t] = db[t] \cup w[t]
      /\ db'.items = db.items \cup w.items
  BY CommitPublishes
<1>5. /\ {x \in db'.categories : x.by = r} = w.categories
      /\ {x \in db'.suppliers : x.by = r} = w.suppliers
      /\ {x \in db'.items : x.by = r} = w.items
  <2>1. \A t \in Tables : \A row \in w[t] : row.by = r
    BY <1>2 DEF MakerFits, Tables, Groups
  <2>2. \A t \in Tables : db'[t] = db[t] \cup w[t]
    BY <1>4 DEF Tables, Groups
  <2>3. ASSUME NEW t \in Tables PROVE {x \in db'[t] : x.by = r} = w[t]
    <3>1. \A x : x \in db'[t] <=> x \in db[t] \/ x \in w[t]
      BY <2>2
    <3> QED BY <1>3, <2>1, <3>1
  <2> QED BY <2>3 DEF Tables
<1>6. {row.id[2] : row \in w.items} = {row.line : row \in Range(p.rows)}
  <2>1. p.at = Len(p.rows) + 1 /\ p.rows \in Seq(AskedRow)
    BY <1>1, <1>2 DEF ImportFits, RequestType
  <2>2. Len(p.rows) \in Nat /\ DOMAIN p.rows = 1..Len(p.rows) /\ p.at - 1 = Len(p.rows)
    BY <2>1
  <2>3. {row.id[2] : row \in w.items} = {p.rows[n].line : n \in DOMAIN p.rows}
    BY <1>1, <1>2, <2>2 DEF ImportFits
  <2>4. {p.rows[n].line : n \in DOMAIN p.rows} = {row.line : row \in Range(p.rows)}
    BY DEF Range
  <2> QED BY <2>3, <2>4
<1>7. Cardinality(w.categories) + Cardinality(w.suppliers) = p.report
  BY <1>1, <1>2 DEF ImportFits
<1>8. ASSUME NEW row \in w.items
      PROVE  /\ row.category \in db'.categories \cup {None}
             /\ row.supplier \in db'.suppliers \cup {None}
  <2>1. p.known.categories \subseteq db'.categories /\ p.known.suppliers \subseteq db'.suppliers
    BY <1>2, <1>4 DEF MakerFits, Groups
  <2> QED BY <1>2, <2>1 DEF MakerFits
<1> QED BY <1>5, <1>6, <1>7, <1>8 DEF ImportStands

\* The request that commits is answered truly.
LEMMA CommitFits ==
  ASSUME CatalogueInv, NEW r \in Requests, Commit(r)
  PROVE  Fits(r, reqs'[r], Nothing, db')
<1> DEFINE p == reqs[r]
           q == reqs'[r]
<1>1. Fits(r, p, work[r], db) /\ p.step = "commit" /\ p.op \in {"import", "create", "update"}
  BY StepTells DEF Commit, At
<1>2. /\ q.step = "done" /\ q.reply = "done" /\ q.op = p.op /\ q.rows = p.rows
      /\ q.at = p.at /\ q.known = p.known /\ q.change = p.change /\ q.item = p.item
      /\ q.report = p.report
  BY CommitAnswers
<1> HIDE DEF p, q
<1>3. p.op = "import" => ImportFits(r, q, Nothing, db')
  BY <1>2 DEF ImportFits
<1>4. p.op = "import" => ImportStands(r, q, db')
  <2>1. ASSUME p.op = "import" PROVE ImportStands(r, p, db')
    BY <2>1, ImportIsDone DEF p
  <2> QED BY <1>2, <2>1 DEF ImportStands
<1>5. p.op = "create" => CreateFits(q)
  BY <1>1, <1>2 DEF Fits, CreateFits
<1>6. ASSUME p.op = "update" PROVE UpdateFits(q, Nothing, db')
  <2>1. UpdateFits(p, work[r], db)
    BY <1>1, <1>6 DEF Fits
  <2>2. db.categories \subseteq db'.categories /\ db.suppliers \subseteq db'.suppliers
    BY CommitKeeps DEF Groups
  <2>3. \E row \in db'.items : row.id = p.item.id
    BY <2>1, CommitKeeps DEF UpdateFits
  <2> QED BY <1>2, <2>1, <2>2, <2>3 DEF UpdateFits
<1>7. q.op = "import" => q.step \in ImportStages
  BY <1>2 DEF ImportStages
<1>8. q.op \in {"import", "create", "update"} /\ q.op # "none"
  BY <1>1, <1>2
<1>9. q.step \notin {"idle"} /\ q.reply # "none"
  BY <1>2
<1>10. Fits(r, q, Nothing, db')
  BY <1>2, <1>3, <1>4, <1>5, <1>6, <1>7, <1>8, <1>9 DEF Fits
<1> QED BY <1>10 DEF q

\* The change that commits is the last of its field; the other fields of the
\* item, and the other items, have the values they had.
LEMMA CommitKeepsPatches ==
  ASSUME CatalogueInv, NEW r \in Requests, Commit(r)
  PROVE  PatchesStand'
<1>1. PatchesStand
  BY DEF CatalogueInv
<1>2. CASE reqs[r].op = "update"
  <2> DEFINE change == reqs[r].change
             field == <<reqs[r].item.id, change.field>>
  <2>1. PICK base \in db.items :
          LET new == ChangedRow(base, change)
          IN  /\ base.id = reqs[r].item.id /\ new.id = base.id
              /\ base \in ItemRow
              /\ db'.items = {row \in db.items : row.id # base.id} \cup {new}
    BY <1>2, CommitChanges
  <2>2. change \in Changes /\ reqs[r].item \in ItemRow
    BY <1>2, CommitChanges DEF UpdateFits
  <2>3. change.field \in {"name", "category", "supplier", "archived"}
    BY <2>2 DEF Changes
  <2> DEFINE new == ChangedRow(base, change)
  <2>4. /\ new.id = base.id /\ new[change.field] = change.value
        /\ \A f \in {"name", "category", "supplier", "archived"} \ {change.field} :
             new[f] = base[f]
        /\ db'.items = {row \in db.items : row.id # base.id} \cup {new}
    BY <2>1, <2>2, ChangeOfOneField
  <2>5. patched' = [f \in DOMAIN patched \cup {field} |->
                      IF f = field THEN change.value ELSE patched[f]]
    BY <1>2 DEF Commit
  <2>6. field \in ((Requests \cup {None}) \X Nat)
                    \X {"name", "category", "supplier", "archived"}
    BY <2>2, <2>3 DEF ItemRow
  <2>7. field[1] = base.id /\ field[2] = change.field
    BY <2>1
  <2> HIDE DEF change, field, new
  <2>8. ASSUME NEW f \in DOMAIN patched'
        PROVE  /\ f \in ((Requests \cup {None}) \X Nat)
                          \X {"name", "category", "supplier", "archived"}
               /\ \E row \in db'.items : row.id = f[1]
               /\ \A row \in db'.items : row.id = f[1] => row[f[2]] = patched'[f]
    <3>1. CASE f = field
      <4>1. patched'[f] = change.value
        BY <2>5, <3>1
      <4> QED BY <2>4, <2>6, <2>7, <3>1, <4>1
    <3>2. CASE f # field
      <4>1. f \in DOMAIN patched /\ patched'[f] = patched[f]
        BY <2>5, <3>2
      <4>2. /\ f \in ((Requests \cup {None}) \X Nat)
                       \X {"name", "category", "supplier", "archived"}
            /\ \E row \in db.items : row.id = f[1]
            /\ \A row \in db.items : row.id = f[1] => row[f[2]] = patched[f]
        BY <1>1, <4>1 DEF PatchesStand
      <4>3. f[1] = base.id => f[2] # change.field
        BY <2>6, <2>7, <3>2, <4>2
      <4>4. f[1] = base.id => new[f[2]] = patched[f]
        <5>1. f[2] \in {"name", "category", "supplier", "archived"}
          BY <4>2
        <5> QED BY <2>4, <4>2, <4>3, <5>1
      <4>5. \E row \in db'.items : row.id = f[1]
        BY <2>4, <4>2
      <4>6. \A row \in db'.items : row.id = f[1] => row[f[2]] = patched[f]
        BY <2>4, <4>2, <4>4
      <4> QED BY <4>1, <4>2, <4>5, <4>6
    <3> QED BY <3>1, <3>2
  <2> QED BY <2>8 DEF PatchesStand
<1>3. CASE reqs[r].op # "update"
  <2>1. reqs[r].op \in {"import", "create"}
    BY <1>3, StepTells DEF Commit, At
  <2>2. MakerFits(r, reqs[r], work[r], db)
    BY <2>1, StepTells DEF Fits, Commit, At
  <2>3. /\ db'.items = db.items \cup work[r].items
        /\ \A row \in db.items : row.id[1] # r
    BY <2>1, CommitPublishes
  <2>4. \A own \in work[r].items : own.id[1] = r
    BY <2>2 DEF MakerFits
  <2>5. patched' = patched
    BY <1>3 DEF Commit
  <2>6. ASSUME NEW f \in DOMAIN patched
        PROVE  /\ \E row \in db'.items : row.id = f[1]
               /\ \A row \in db'.items : row.id = f[1] => row[f[2]] = patched[f]
    <3>1. PICK base \in db.items : base.id = f[1]
      BY <1>1, <2>6 DEF PatchesStand
    <3>2. \A row \in db'.items : row.id = f[1] => row \in db.items
      BY <2>3, <2>4, <3>1
    <3> QED BY <1>1, <2>3, <2>6, <3>1, <3>2 DEF PatchesStand
  <2> QED BY <1>1, <2>5, <2>6 DEF PatchesStand
<1> QED BY <1>2, <1>3

LEMMA CommitKeepsInv ==
  ASSUME CatalogueInv, NEW r \in Requests, Commit(r)
  PROVE  CatalogueInv'
<1>1. ASSUME NEW o \in Requests PROVE Fits(o, reqs'[o], work'[o], db')
  <2>1. CASE o = r
    BY <2>1, CommitFits, CommitAnswers
  <2>2. CASE o # r
    <3>1. reqs'[o] = reqs[o] /\ work'[o] = work[o]
      BY <2>2, CommitAnswers
    <3> QED BY <2>2, <3>1, CommitLeavesOthers
  <2> QED BY <2>1, <2>2
<1>2. UpdatesApart'
  <2>1. /\ reqs'[r].step = "done" /\ \A o \in Requests \ {r} : reqs'[o] = reqs[o]
    BY CommitAnswers
  <2> QED BY <2>1 DEF CatalogueInv, UpdatesApart
<1> QED BY <1>1, <1>2, CommitKeepsTypes, CommitKeepsPatches DEF CatalogueInv

-----------------------------------------------------------------------------
(* What holds of the catalogue.                                             *)

LEMMA CatalogueBegins == CatalogueInit => CatalogueInv
<1> SUFFICES ASSUME CatalogueInit PROVE CatalogueInv
  OBVIOUS
<1>1. db \in {Nothing, Stocked} /\ patched = << >>
      /\ work = [r \in Requests |-> Nothing] /\ reqs = [r \in Requests |-> Idle]
  BY DEF CatalogueInit
<1>2. Idle \in RequestType /\ Idle.op = "none" /\ Idle.step = "idle" /\ Idle.reply = "none"
  BY IdleRequest
<1> DEFINE name == CHOOSE n \in ItemNames : TRUE
           group == CHOOSE n \in GroupNames : TRUE
           item == [id |-> <<None, 1>>, name |-> name, by |-> None, category |-> None,
                    supplier |-> None, onHand |-> 0, archived |-> FALSE]
           row == [name |-> group, by |-> None]
<1>3. name \in ItemNames /\ group \in GroupNames
  BY CatalogueAssumption
<1>4. Stocked.items = {item} /\ Stocked.categories = {row} /\ Stocked.suppliers = {}
  BY DEF Stocked, Tables
<1> HIDE DEF name, group
<1>5. item \in ItemRow /\ item.id[1] = item.by /\ item.by = None
  BY <1>3 DEF ItemRow
<1>6. row \in GroupRow /\ row.by = None
  BY <1>3 DEF GroupRow
<1> HIDE DEF item, row
<1>7. Stocked \in Store
  <2>1. \A t \in Tables : Stocked[t] \subseteq GroupRow \cup ItemRow
    BY <1>4, <1>5, <1>6 DEF Tables
  <2>2. Stocked = [t \in Tables |-> Stocked[t]]
    BY DEF Stocked
  <2> QED BY <2>1, <2>2 DEF Store
<1>8. /\ db \in Store /\ \A t \in Tables : \A x \in db[t] : x.by = None
      /\ \A x \in db.items : x \in ItemRow /\ x.id[1] = x.by
      /\ \A t \in Groups : db[t] \subseteq GroupRow
  <2>1. CASE db = Nothing
    <3>1. \A t \in Tables : db[t] = {}
      BY <2>1, NothingIsStored
    <3> QED BY <2>1, <3>1, NothingIsStored DEF Tables, Groups
  <2>2. CASE db = Stocked
    BY <1>4, <1>5, <1>6, <1>7, <2>2 DEF Tables, Groups
  <2> QED BY <1>1, <2>1, <2>2
<1>9. CatalogueTypes
  BY <1>1, <1>2, <1>8, NothingIsStored DEF CatalogueTypes
<1>10. ASSUME NEW r \in Requests PROVE Fits(r, reqs[r], work[r], db)
  <2>1. reqs[r] = Idle /\ work[r] = Nothing
    BY <1>1
  <2>2. r # None
    BY CatalogueAssumption
  <2> HIDE DEF Idle
  <2> QED BY <1>2, <1>8, <2>1, <2>2 DEF Fits
<1>11. UpdatesApart
  BY <1>1, <1>2 DEF UpdatesApart
<1>12. PatchesStand
  BY <1>1 DEF PatchesStand
<1> QED BY <1>9, <1>10, <1>11, <1>12 DEF CatalogueInv

LEMMA CatalogueKeeps == CatalogueInv /\ [CatalogueNext]_catalogueVars => CatalogueInv'
<1> SUFFICES ASSUME CatalogueInv, [CatalogueNext]_catalogueVars PROVE CatalogueInv'
  OBVIOUS
<1>1. CASE UNCHANGED catalogueVars
  BY <1>1 DEF catalogueVars, CatalogueInv, CatalogueTypes, UpdatesApart, PatchesStand
<1>2. ASSUME NEW r \in Requests, StartImport(r) \/ StartCreate(r) \/ StartUpdate(r)
      PROVE  CatalogueInv'
  BY <1>2, StartImportKeeps, StartCreateKeeps, StartUpdateKeeps
<1>3. ASSUME NEW r \in Requests, RequestStep(r)
      PROVE  CatalogueInv'
  <2>1. "categories" \in Groups /\ "suppliers" \in Groups
    BY DEF Groups
  <2>2. CASE ReadNames(r, "categories") \/ ReadNames(r, "suppliers")
    BY <2>1, <2>2, ReadNamesKeeps
  <2>3. CASE CreateMissing(r, "categories") \/ CreateMissing(r, "suppliers")
    BY <2>1, <2>3, CreateMissingKeeps
  <2>4. CASE CreateGroup(r, "categories") \/ CreateGroup(r, "suppliers")
    BY <2>1, <2>4, CreateGroupKeeps
  <2>5. CASE ImportItem(r)
    BY <2>5, ImportItemKeeps
  <2>6. CASE UpdateItem(r)
    BY <2>6, UpdateItemKeeps
  <2>7. CASE Commit(r)
    BY <2>7, CommitKeepsInv
  <2>8. CASE Conflict(r) \/ Deadlock(r)
    BY <2>8, RequestEnds
  <2> QED BY <1>3, <2>2, <2>3, <2>4, <2>5, <2>6, <2>7, <2>8 DEF RequestStep
<1>4. ASSUME NEW r \in Requests, Abandon(r)
      PROVE  CatalogueInv'
  BY <1>4, RequestEnds
<1> QED BY <1>1, <1>2, <1>3, <1>4 DEF CatalogueNext

\* What holds of the catalogue's tables and of the open transactions, always.
THEOREM CatalogueHolds == CatalogueSpec => []CatalogueInv
<1> QED BY CatalogueBegins, CatalogueKeeps, PTL DEF CatalogueSpec

\* An import is all or nothing, whatever other requests do at the same time
\* (catalog/import.go, Import).
THEOREM ImportsAreAllOrNothing == CatalogueSpec => []ImportsAreWhole
<1>1. ASSUME CatalogueInv PROVE ImportsAreWhole
  <2>1. ASSUME NEW r \in Requests, reqs[r].op = "import", reqs[r].reply = "done"
        PROVE  ImportStands(r, reqs[r], db)
    BY <1>1, <2>1 DEF CatalogueInv, Fits
  <2>2. ASSUME NEW r \in Requests, reqs[r].reply # "done"
        PROVE  \A t \in Tables : {row \in db[t] : row.by = r} = {}
    <3>1. \A t \in Tables : \A row \in db[t] : row.by # r
      BY <1>1, <2>2 DEF CatalogueInv, Fits
    <3> QED BY <3>1
  <2> QED BY <2>1, <2>2, Zenon DEF ImportStands, ImportsAreWhole
<1> QED BY <1>1, CatalogueHolds, PTL

\* A change of one field of an item is not undone by a change of another field
\* (catalog/service.go, UpdateItem).
THEOREM ChangesAreKept == CatalogueSpec => []PatchesSurvive
<1>1. CatalogueInv => PatchesSurvive
  BY DEF CatalogueInv, PatchesStand, PatchesSurvive
<1> QED BY <1>1, CatalogueHolds, PTL

=============================================================================
