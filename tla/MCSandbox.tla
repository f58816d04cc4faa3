----------------------------- MODULE MCSandbox -----------------------------
(* Demo organisations in two scenarios of bounded size: many demos coming and  *)
(* going, and several requests inside one guided demo.                         *)
EXTENDS Sandbox

CONSTANTS FillSteps, ByHandSteps

VARIABLE scenario

MCInit == Init /\ scenario \in {"demos", "inside"}

\* Creations, resets, expiry and clean-up; nobody works inside a demo.
Outside ==
  \/ \E r \in Requests, v \in Visitors :
       \/ \E mode \in {"ready", "guided"} : StartCreate(r, v, mode)
       \/ StartReset(r, v, "guided")
  \/ \E r \in Requests : CreateStep(r) \/ Fail(r)
  \/ Passing

\* One guided demo, which its visitor's requests fill, move forward and reset.
Inside ==
  \/ \E r \in Requests, v \in Visitors :
       \/ created = 0 /\ StartCreate(r, v, "guided")
       \/ created = 1 /\ StartReset(r, v, "guided")
       \/ \E n \in {1, Week} : created = 1 /\ StartAdvance(r, v, n)
       \/ \E s \in FillSteps : created = 1 /\ StartFill(r, v, s)
  \/ \E r \in Requests : RequestStep(r)
  \/ \E v \in Visitors, s \in ByHandSteps : created = 1 /\ ByHand(v, s)
  \/ \E v \in Visitors : created = 1 /\ SetAutopilot(v, TRUE)

MCNext ==
  /\ IF scenario = "demos" THEN Outside ELSE Inside
  /\ UNCHANGED scenario

MCvars == <<vars, scenario>>

MCFairSpec ==
  /\ MCInit
  /\ [][MCNext]_MCvars
  /\ WF_vars(\E d \in Demos : Expire(d))
  /\ WF_vars(Cleanup)

=============================================================================
