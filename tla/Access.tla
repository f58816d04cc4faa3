------------------------------- MODULE Access -------------------------------
(***************************************************************************)
(* Signing in (auth/service.go, http.go) under the limiter of attempts     *)
(* (platform/ratelimit).  The limiter keeps in Redis, for the address and  *)
(* for the email, the marks of the attempts of the last window; an attempt *)
(* marks itself and counts in one transaction.  Redis may fail, before or  *)
(* after it has done what it was asked; then nobody is refused.            *)
(*                                                                         *)
(* Time is counted in parts of the window.  An attempt reads the clock     *)
(* when it marks: the few milliseconds between are not modelled.           *)
(***************************************************************************)
EXTENDS Integers, Sequences, FiniteSetsExt

CONSTANTS
  Attempts,     \* attempts to sign in
  Addresses,
  Emails,       \* of users and of nobody
  LoginLimit,
  LoginWindow,
  MaxTime       \* bound of the clock

ASSUME AccessAssumption ==
  LoginLimit \in Nat /\ LoginWindow \in Nat \ {0} /\ MaxTime \in Nat

VARIABLES
  now,
  marks,     \* marks of each key at each time
  attempts,
  sessions,  \* attempts whose session exists
  admitted   \* attempts each key has let in since it was last reset

accessVars == <<now, marks, attempts, sessions, admitted>>

Keys == Addresses \cup Emails

Times == 0 .. MaxTime

NoMarks == [t \in Times |-> 0]

AccessInit ==
  /\ now = 0
  /\ marks = [k \in Keys |-> NoMarks]
  /\ attempts \in
       {[a \in Attempts |-> [address |-> address[a], email |-> email[a],
                             step |-> "idle", reply |-> "none"]] :
          address \in [Attempts -> Addresses], email \in [Attempts -> Emails]}
  /\ sessions = {}
  /\ admitted = [k \in Keys |-> NoMarks]

Is(a, step) == attempts[a].step = step

Proceed(a, step) == attempts' = [attempts EXCEPT ![a].step = step]

Finish(a, reply) == attempts' = [attempts EXCEPT ![a].step = "done", ![a].reply = reply]

(* Between the marks older than the window and the current one. *)
InWindow(t, at) == at - LoginWindow < t /\ t <= at

CountIn(log, at) == MapThenSumSet(LAMBDA t : log[t], {t \in Times : InWindow(t, at)})

KeyOf(a, step) == IF step = "address" THEN attempts[a].address ELSE attempts[a].email

After(step) == IF step = "address" THEN "email" ELSE "user"

ResetOf(step) == IF step = "address" THEN "reset address" ELSE "reset email"

(* Marks fall out of the window, the attempt marks itself: also one refused. *)
Marked(k) == [t \in Times |-> IF ~InWindow(t, now) THEN 0
                              ELSE IF t = now THEN marks[k][t] + 1 ELSE marks[k][t]]

-----------------------------------------------------------------------------

Arrive(a) ==
  /\ Is(a, "idle")
  /\ Proceed(a, "address")
  /\ UNCHANGED <<now, marks, sessions, admitted>>

(* A plausible mistake: windows begin at multiples of their length. *)
AllowFixedWindow(a, step) ==
  /\ Is(a, step)
  /\ LET k == KeyOf(a, step)
         begin == (now \div LoginWindow) * LoginWindow
         marked == [t \in Times |-> IF t < begin THEN 0
                                    ELSE IF t = now THEN marks[k][t] + 1 ELSE marks[k][t]]
     IN  /\ marks' = [marks EXCEPT ![k] = marked]
         /\ IF CountIn(marked, now) > LoginLimit
            THEN Finish(a, "limited") /\ UNCHANGED admitted
            ELSE /\ Proceed(a, After(step))
                 /\ admitted' = [admitted EXCEPT ![k][now] = @ + 1]
  /\ UNCHANGED <<now, sessions>>

Allow(a, step) ==
  /\ Is(a, step)
  /\ LET k == KeyOf(a, step)
     IN  /\ marks' = [marks EXCEPT ![k] = Marked(k)]
         /\ IF CountIn(Marked(k), now) > LoginLimit
            THEN Finish(a, "limited") /\ UNCHANGED admitted
            ELSE /\ Proceed(a, After(step))
                 /\ admitted' = [admitted EXCEPT ![k][now] = @ + 1]
  /\ UNCHANGED <<now, sessions>>

(* Redis fails, or its answer is lost: the attempt goes on. *)
AllowUnknown(a, step) ==
  /\ Is(a, step)
  /\ Proceed(a, After(step))
  /\ \/ UNCHANGED marks
     \/ marks' = [marks EXCEPT ![KeyOf(a, step)] = Marked(KeyOf(a, step))]
  /\ UNCHANGED <<now, sessions, admitted>>

(* No user of that email or another password: one answer for both. *)
CheckPassword(a) ==
  /\ Is(a, "user")
  /\ Proceed(a, "session") \/ Finish(a, "invalid") \/ Finish(a, "error")
  /\ UNCHANGED <<now, marks, sessions, admitted>>

(* The session is committed, then read back. *)
CreateSession(a) ==
  /\ Is(a, "session")
  /\ \/ sessions' = sessions \cup {a} /\ Proceed(a, "resolve")
     \/ UNCHANGED sessions /\ Finish(a, "error")
  /\ UNCHANGED <<now, marks, admitted>>

Resolve(a) ==
  /\ Is(a, "resolve")
  /\ Proceed(a, "reset address") \/ Finish(a, "error")
  /\ UNCHANGED <<now, marks, sessions, admitted>>

(* Success takes the marks away, those of others too; a failure is ignored. *)
Reset(a, step) ==
  /\ Is(a, ResetOf(step))
  /\ LET k == KeyOf(a, step)
     IN  \/ marks' = [marks EXCEPT ![k] = NoMarks] /\ admitted' = [admitted EXCEPT ![k] = NoMarks]
         \/ UNCHANGED <<marks, admitted>>
  /\ IF step = "address" THEN Proceed(a, "reset email") ELSE Finish(a, "in")
  /\ UNCHANGED <<now, sessions>>

(* The session is deleted before the answer. *)
Logout(a) ==
  /\ attempts[a].reply = "in" /\ a \in sessions
  /\ sessions' = sessions \ {a}
  /\ attempts' = [attempts EXCEPT ![a].reply = "out"]
  /\ UNCHANGED <<now, marks, admitted>>

Tick ==
  /\ now < MaxTime
  /\ now' = now + 1
  /\ UNCHANGED <<marks, attempts, sessions, admitted>>

AttemptStep(a) ==
  \/ \E step \in {"address", "email"} :
       Allow(a, step) \/ AllowUnknown(a, step) \/ Reset(a, step)
  \/ CheckPassword(a) \/ CreateSession(a) \/ Resolve(a)

AccessNext ==
  \/ Tick
  \/ \E a \in Attempts : Arrive(a) \/ AttemptStep(a) \/ Logout(a)

AccessSpec == AccessInit /\ [][AccessNext]_accessVars

-----------------------------------------------------------------------------

(* In no window of time, wherever it begins, does a key let in more attempts  *)
(* than the limit, however many come at once; a success, after which it is    *)
(* cleared, and a failure of Redis apart (platform/ratelimit, Allow: fixed    *)
(* windows would let twice the limit pass where they meet).  Only an attempt  *)
(* let in by both keys gets a session, and one answered so has it.            *)
AdmissionsAreBounded ==
  /\ \A k \in Keys, t \in Times : CountIn(admitted[k], t) <= LoginLimit
  /\ \A a \in Attempts :
       /\ attempts[a].reply = "in" => a \in sessions
       /\ attempts[a].reply \in {"limited", "invalid", "out"} => a \notin sessions

=============================================================================
