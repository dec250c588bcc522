----------------------- MODULE QuoteLifecycle_proofs -----------------------
(***************************************************************************)
(* Proofs about QuoteLifecycle, for any sets of browsers and requests and  *)
(* any bounds.                                                             *)
(***************************************************************************)
EXTENDS QuoteLifecycle, SequenceTheorems, TLAPS

StepStatuses == {"pending", "approved", "rejected", "returned_for_revision",
                 "escalated", "superseded", "cancelled"}

(***************************************************************************)
(* How the updates of approval_instances act on one version's steps.       *)
(***************************************************************************)

\* Closing the pending steps of a version keeps their number and their roles.
LEMMA ClosePendingKeeps ==
  ASSUME NEW s \in Seq(Step), NEW to \in StepStatuses
  PROVE  /\ ClosePending(s, to) \in Seq(Step)
         /\ DOMAIN ClosePending(s, to) = DOMAIN s
         /\ \A i \in DOMAIN s :
              /\ ClosePending(s, to)[i].role = s[i].role
              /\ ClosePending(s, to)[i].status =
                   IF s[i].status = "pending" THEN to ELSE s[i].status
<1> DEFINE t == ClosePending(s, to)
<1>1. /\ Len(s) \in Nat
      /\ DOMAIN s = 1..Len(s)
      /\ \A i \in 1..Len(s) : s[i] \in Step
  OBVIOUS
<1>2. DOMAIN t = 1..Len(s)
  BY <1>1 DEF ClosePending
<1>3. ASSUME NEW i \in 1..Len(s)
      PROVE  /\ t[i] \in Step
             /\ t[i].role = s[i].role
             /\ t[i].status = IF s[i].status = "pending" THEN to ELSE s[i].status
  BY <1>1, <1>3 DEF ClosePending, Step, StepStatuses
<1>4. t \in [1..Len(s) -> Step]
  BY <1>1, <1>3 DEF ClosePending
<1>5. t \in Seq(Step)
  BY <1>1, <1>4, SeqDef
<1> QED
  BY <1>1, <1>2, <1>3, <1>5

\* Setting the status of a step keeps the number of steps and their roles.
LEMMA SetStepKeeps ==
  ASSUME steps \in [Versions -> Seq(Step)], NEW v \in Versions, NEW i \in Nat,
         NEW to \in StepStatuses
  PROVE  /\ SetStep(v, i, to) \in Seq(Step)
         /\ DOMAIN SetStep(v, i, to) = DOMAIN steps[v]
         /\ \A j \in DOMAIN steps[v] :
              /\ SetStep(v, i, to)[j].role = steps[v][j].role
              /\ SetStep(v, i, to)[j].status =
                   IF j = i THEN to ELSE steps[v][j].status
<1> DEFINE s == steps[v]
           t == SetStep(v, i, to)
<1>1. /\ s \in Seq(Step)
      /\ Len(s) \in Nat
      /\ DOMAIN s = 1..Len(s)
      /\ \A j \in 1..Len(s) : s[j] \in Step
  OBVIOUS
<1>2. t = [j \in 1..Len(s) |-> IF j = i THEN [s[j] EXCEPT !.status = to] ELSE s[j]]
  BY <1>1 DEF SetStep
<1>3. ASSUME NEW j \in 1..Len(s)
      PROVE  /\ t[j] \in Step
             /\ t[j].role = s[j].role
             /\ t[j].status = IF j = i THEN to ELSE s[j].status
  BY <1>1, <1>2, <1>3 DEF Step, StepStatuses
<1>4. t \in [1..Len(s) -> Step]
  BY <1>2, <1>3
<1>5. t \in Seq(Step)
  BY <1>1, <1>4, SeqDef
<1> QED
  BY <1>1, <1>2, <1>3, <1>5

\* Superseding the pending steps of every version but one.
LEMMA SupersedeOthersKeeps ==
  ASSUME steps \in [Versions -> Seq(Step)], NEW keep
  PROVE  /\ SupersedeOthers(keep) \in [Versions -> Seq(Step)]
         /\ \A v \in Versions :
              SupersedeOthers(keep)[v] =
                IF v = keep THEN steps[v] ELSE ClosePending(steps[v], "superseded")
<1>1. \A v \in Versions : ClosePending(steps[v], "superseded") \in Seq(Step)
  BY ClosePendingKeeps DEF StepStatuses
<1> QED
  BY <1>1 DEF SupersedeOthers

-----------------------------------------------------------------------------
(***************************************************************************)
(* Type correctness.                                                       *)
(***************************************************************************)

\* MoveTo keeps the types of status and lock_version, whose bound it respects.
LEMMA MoveToType ==
  ASSUME TypeOK, NEW s \in Statuses, MoveTo(s)
  PROVE  status' \in Statuses /\ lock' \in 1..MaxLock
BY BoundsAssumption DEF TypeOK, MoveTo

\* So does NewVersion, which also assesses the version it creates.
LEMMA NewVersionType ==
  ASSUME TypeOK, NEW s \in Statuses, NEW r \in Routes, NewVersion(r, s)
  PROVE  /\ status' \in Statuses /\ lock' \in 1..MaxLock
         /\ version' \in Versions /\ route' \in [Versions -> Routes]
<1>1. MoveTo(s)
  BY DEF NewVersion
<1>2. version' \in Versions /\ route' \in [Versions -> Routes]
  BY BoundsAssumption DEF TypeOK, NewVersion, Versions
<1> QED
  BY <1>1, <1>2, MoveToType

\* The sales representative's requests keep the types.
LEMMA RepType ==
  ASSUME TypeOK, RepNext
  PROVE  TypeOK'
<1>1. /\ "draft" \in Statuses /\ "sent_to_customer" \in Statuses
      /\ "pending_manager_approval" \in Statuses
  BY DEF Statuses
<1>2. ASSUME NEW b \in Staff, NEW r \in Routes, CreateRevision(b, r)
      PROVE  TypeOK'
  BY <1>1, <1>2, NewVersionType, SupersedeOthersKeeps
     DEF CreateRevision, TypeOK, sessionVars
<1>3. ASSUME NEW r \in Routes, AcceptUpsell(r)
      PROVE  TypeOK'
  <2>1. \A v \in Versions : ClosePending(steps[v], "superseded") \in Seq(Step)
    BY ClosePendingKeeps DEF StepStatuses, TypeOK
  <2> QED
    BY <1>1, <1>3, <2>1, NewVersionType DEF AcceptUpsell, TypeOK, sessionVars
<1>4. CASE SubmitWithoutRisk
  BY <1>1, <1>4, SupersedeOthersKeeps
     DEF SubmitWithoutRisk, TypeOK, sessionVars
<1>5. CASE SubmitForApproval
  <2>1. <<ManagerStep>> \in Seq(Step)
    BY DEF ManagerStep, Step
  <2> QED
    BY <1>1, <1>5, <2>1, SupersedeOthersKeeps
       DEF SubmitForApproval, TypeOK, sessionVars
<1>6. CASE SendToCustomer
  BY <1>1, <1>6, MoveToType DEF SendToCustomer, TypeOK, sessionVars
<1> QED
  BY <1>2, <1>3, <1>4, <1>5, <1>6 DEF RepNext

\* What CommitDecision, common to the /manager decisions, leaves well typed.
LEMMA CommitDecisionType ==
  ASSUME TypeOK, NEW a \in Approvers, NEW s \in Statuses, CommitDecision(a, s),
         steps' \in [Versions -> Seq(Step)]
  PROVE  TypeOK'
<1>1. MoveTo(s)
  BY DEF CommitDecision
<1>2. approving' \in [Approvers -> Session]
  BY BoundsAssumption DEF CommitDecision, TypeOK, Session, Idle, At
<1> QED
  BY <1>1, <1>2, MoveToType DEF CommitDecision, TypeOK

\* The /manager approval requests keep the types.
LEMMA ApproverType ==
  ASSUME TypeOK, ApproverNext
  PROVE  TypeOK'
<1>1. {"approved", "rejected", "returned_for_revision", "under_negotiation",
       "pending_finance_approval"} \subseteq Statuses
  BY DEF Statuses
<1>2. \A a \in Approvers : approving[a].version \in 0..MaxVersion
                           /\ approving[a].step \in Nat
  BY DEF TypeOK, Session
<1>3. ASSUME NEW v \in Versions, NEW i \in Nat, NEW to \in StepStatuses
      PROVE  /\ SetStep(v, i, to) \in Seq(Step)
             /\ Append(SetStep(v, i, to), FinanceStep) \in Seq(Step)
             /\ ClosePending(SetStep(v, i, to), "cancelled") \in Seq(Step)
  <2>1. SetStep(v, i, to) \in Seq(Step)
    BY SetStepKeeps DEF TypeOK
  <2>2. FinanceStep \in Step
    BY DEF FinanceStep, Step
  <2>3. "cancelled" \in StepStatuses
    BY DEF StepStatuses
  <2> QED
    BY <2>1, <2>2, <2>3, ClosePendingKeeps
<1>4. {"approved", "rejected", "returned_for_revision", "escalated"}
        \subseteq StepStatuses
  BY DEF StepStatuses
<1>5. ASSUME NEW a \in Approvers, NEW v \in Versions,
             NEW i \in DOMAIN steps[v], ReadApproval(a, v, i)
      PROVE  TypeOK'
  <2>1. i \in Nat
    BY <1>5 DEF TypeOK
  <2>2. At("instance", v, i, 0) \in Session
    BY <2>1, BoundsAssumption DEF At, Session, Versions
  <2> QED
    BY <1>5, <2>2 DEF ReadApproval, TypeOK, quoteVars
<1>6. ASSUME NEW a \in Approvers, ReadLockVersion(a)
      PROVE  TypeOK'
  <2>1. At("quote", approving[a].version, approving[a].step, lock) \in Session
    BY DEF TypeOK, Session, At
  <2> QED
    BY <1>6, <2>1 DEF ReadLockVersion, TypeOK, quoteVars
<1>7. ASSUME NEW a \in Approvers, ApproveQuotation(a)
      PROVE  TypeOK'
  <2> DEFINE v == approving[a].version
             i == approving[a].step
  <2>1. CASE NeedsFinance(v, i)
    <3>1. steps' = [steps EXCEPT ![v] = Append(SetStep(v, i, "approved"), FinanceStep)]
      BY <1>7, <2>1 DEF ApproveQuotation
    <3>2. steps' \in [Versions -> Seq(Step)]
      BY <1>2, <1>3, <1>4, <3>1 DEF TypeOK
    <3> QED
      BY <1>1, <1>7, <2>1, <3>2, CommitDecisionType DEF ApproveQuotation
  <2>2. CASE ~NeedsFinance(v, i)
    <3>1. steps' = [steps EXCEPT ![v] = SetStep(v, i, "approved")]
      BY <1>7, <2>2 DEF ApproveQuotation
    <3>2. steps' \in [Versions -> Seq(Step)]
      BY <1>2, <1>3, <1>4, <3>1 DEF TypeOK
    <3> QED
      BY <1>1, <1>7, <2>2, <3>2, CommitDecisionType DEF ApproveQuotation
  <2> QED
    BY <2>1, <2>2
<1>8. ASSUME NEW a \in Approvers, RejectQuotation(a)
      PROVE  TypeOK'
  <2>1. steps' \in [Versions -> Seq(Step)]
    BY <1>2, <1>3, <1>4, <1>8 DEF RejectQuotation, TypeOK
  <2> QED
    BY <1>1, <1>8, <2>1, CommitDecisionType DEF RejectQuotation
<1>9. ASSUME NEW a \in Approvers, ReturnForRevision(a)
      PROVE  TypeOK'
  <2>1. steps' \in [Versions -> Seq(Step)]
    BY <1>2, <1>3, <1>4, <1>9 DEF ReturnForRevision, TypeOK
  <2> QED
    BY <1>1, <1>9, <2>1, CommitDecisionType DEF ReturnForRevision
<1>10. ASSUME NEW a \in Approvers, EscalateToFinance(a)
       PROVE  TypeOK'
  <2>1. steps' \in [Versions -> Seq(Step)]
    BY <1>2, <1>3, <1>4, <1>10 DEF EscalateToFinance, TypeOK
  <2> QED
    BY <1>1, <1>10, <2>1, CommitDecisionType DEF EscalateToFinance
<1>11. ASSUME NEW a \in Approvers, ApprovalFails(a)
       PROVE  TypeOK'
  BY <1>11, BoundsAssumption DEF ApprovalFails, TypeOK, Session, Idle, At, quoteVars
<1>12. ASSUME NEW v \in Versions, NEW i \in DOMAIN steps[v],
              BeginCustomerNegotiation(v, i)
       PROVE  TypeOK'
  <2>1. i \in Nat
    BY <1>12 DEF TypeOK
  <2>2. steps' \in [Versions -> Seq(Step)]
    BY <1>3, <1>4, <1>12, <2>1 DEF BeginCustomerNegotiation, TypeOK
  <2>3. negCase' \in NegCase
    BY <1>12 DEF BeginCustomerNegotiation, NegCase
  <2> QED
    BY <1>1, <1>12, <2>2, <2>3, MoveToType
       DEF BeginCustomerNegotiation, TypeOK, sessionVars
<1> QED
  BY <1>5, <1>6, <1>7, <1>8, <1>9, <1>10, <1>11, <1>12 DEF ApproverNext

\* The Finance decision endpoint's reads and commit keep the types.
LEMMA FinanceType ==
  ASSUME TypeOK, FinanceNext
  PROVE  TypeOK'
<1>1. FinanceDecisions \subseteq Statuses /\ FinanceDecisions \subseteq StepStatuses
  BY DEF FinanceDecisions, Statuses, StepStatuses
<1>2. \A f \in Financiers : /\ deciding[f].version \in 0..MaxVersion
                            /\ deciding[f].step \in Nat
                            /\ deciding[f].lock \in 0..MaxLock
  BY DEF TypeOK, Session
<1>3. Idle \in Session
  BY BoundsAssumption DEF Idle, At, Session
<1>4. ASSUME NEW f \in Financiers, NEW v \in Versions,
             NEW i \in DOMAIN steps[v], FindInstance(f, v, i)
      PROVE  TypeOK'
  <2>1. i \in Nat
    BY <1>4 DEF TypeOK
  <2>2. At("instance", v, i, 0) \in Session
    BY <2>1, BoundsAssumption DEF At, Session, Versions
  <2> QED
    BY <1>4, <2>2 DEF FindInstance, TypeOK, quoteVars
<1>5. ASSUME NEW f \in Financiers, FindQuote(f)
      PROVE  TypeOK'
  <2>1. At("quote", deciding[f].version, deciding[f].step, lock) \in Session
    BY <1>2 DEF TypeOK, Session, At
  <2> QED
    BY <1>5, <2>1 DEF FindQuote, TypeOK, quoteVars
<1>6. ASSUME NEW f \in Financiers, FindCurrentVersion(f)
      PROVE  TypeOK'
  <2>1. At("version", deciding[f].version, deciding[f].step, deciding[f].lock)
          \in Session
    BY <1>2 DEF Session, At
  <2> QED
    BY <1>6, <2>1 DEF FindCurrentVersion, TypeOK, quoteVars
<1>7. ASSUME NEW f \in Financiers, FindPriorStep(f)
      PROVE  TypeOK'
  <2>1. At("checked", deciding[f].version, deciding[f].step, deciding[f].lock)
          \in Session
    BY <1>2 DEF Session, At
  <2> QED
    BY <1>7, <2>1 DEF FindPriorStep, TypeOK, quoteVars
<1>8. ASSUME NEW f \in Financiers, NEW d \in FinanceDecisions, DecideApproval(f, d)
      PROVE  TypeOK'
  <2> DEFINE v == deciding[f].version
             i == deciding[f].step
  <2>1. MoveTo(d) /\ steps' = [steps EXCEPT ![v] = SetStep(v, i, d)]
    BY <1>8 DEF DecideApproval
  <2>2. v \in Versions => SetStep(v, i, d) \in Seq(Step)
    BY <1>1, <1>2, SetStepKeeps DEF TypeOK
  <2>3. steps' \in [Versions -> Seq(Step)]
    BY <2>1, <2>2 DEF TypeOK
  <2> QED
    BY <1>1, <1>3, <1>8, <2>1, <2>3, MoveToType DEF DecideApproval, TypeOK
<1>9. ASSUME NEW f \in Financiers, FinanceFails(f)
      PROVE  TypeOK'
  BY <1>3, <1>9 DEF FinanceFails, TypeOK, quoteVars
<1> QED
  BY <1>4, <1>5, <1>6, <1>7, <1>8, <1>9 DEF FinanceNext

\* The customer portal's requests keep the types.
LEMMA CustomerType ==
  ASSUME TypeOK, CustomerNext
  PROVE  TypeOK'
<1>1. {"customer_confirmed", "rejected", "under_negotiation"} \subseteq Statuses
  BY DEF Statuses
<1>2. Resolved(negCase) \in NegCase
  BY DEF TypeOK, NegCase, Resolved
<1>3. ASSUME NEW c \in Customers, AcceptQuote(c)
      PROVE  TypeOK'
  <2>1. invoices' \in [Versions -> Nat]
    BY <1>3 DEF AcceptQuote, TypeOK
  <2> QED
    BY <1>1, <1>3, <2>1, MoveToType DEF AcceptQuote, TypeOK
<1>4. ASSUME NEW c \in Customers, ResolveCase(c) \/ CrashBeforeResolve(c)
      PROVE  TypeOK'
  BY <1>2, <1>4 DEF ResolveCase, CrashBeforeResolve, TypeOK, quoteVars
<1>5. ASSUME NEW c \in Customers, RejectQuote(c)
      PROVE  TypeOK'
  BY <1>1, <1>2, <1>5, MoveToType DEF RejectQuote, TypeOK, sessionVars
<1>6. ASSUME NEW c \in Customers, SubmitCounter(c)
      PROVE  TypeOK'
  BY <1>1, <1>6, MoveToType DEF SubmitCounter, TypeOK, sessionVars
<1>7. ASSUME NEW c \in Customers, NEW o \in {"sales_rep", "sales_manager"},
             SubmitStructuredNegotiation(c, o)
      PROVE  TypeOK'
  <2>1. negCase' \in NegCase
    BY <1>7 DEF SubmitStructuredNegotiation, TypeOK, NegCase
  <2> QED
    BY <1>1, <1>7, <2>1, MoveToType
       DEF SubmitStructuredNegotiation, TypeOK, sessionVars
<1> QED
  BY <1>3, <1>4, <1>5, <1>6, <1>7 DEF CustomerNext

\* The negotiation owner's requests keep the types.
LEMMA OwnerType ==
  ASSUME TypeOK, OwnerNext
  PROVE  TypeOK'
<1>1. ASSUME NEW b \in Staff, NEW r \in Routes, ReviseCase(b, r)
      PROVE  TypeOK'
  <2>1. "sent_to_customer" \in Statuses
    BY DEF Statuses
  <2> QED
    BY <1>1, <2>1, NewVersionType DEF ReviseCase, TypeOK, sessionVars
<1>2. CASE ForwardToFinance
  BY <1>2 DEF ForwardToFinance, TypeOK, NegCase, quoteVars, sessionVars
<1> QED
  BY <1>1, <1>2 DEF OwnerNext

\* A quotation that has just been created is well typed.
LEMMA InitType ==
  ASSUME Init
  PROVE  TypeOK
<1>1. NoToken \in Token /\ Idle \in Session
  BY BoundsAssumption DEF NoToken, Token, Idle, At, Session
<1>2. 1 \in Versions /\ "draft" \in Statuses /\ 1 \in 1..MaxLock
  BY BoundsAssumption DEF Versions, Statuses
<1>3. route \in [Versions -> Routes]
  BY DEF Init, Routes
<1>4. negCase \in NegCase
  BY DEF Init, NegCase
<1> QED
  BY <1>1, <1>2, <1>3, <1>4 DEF Init, TypeOK

\* Every request keeps the types.
LEMMA StepType ==
  ASSUME TypeOK, [Next]_vars
  PROVE  TypeOK'
<1>1. ASSUME NEW b \in Browsers, Load(b)
      PROVE  TypeOK'
  <2>1. [lock |-> lock, version |-> version] \in Token
    BY DEF TypeOK, Token, Versions
  <2> QED
    BY <1>1, <2>1 DEF Load, TypeOK, quoteVars
<1>2. CASE UNCHANGED vars
  BY <1>2 DEF vars, TypeOK
<1> QED
  BY <1>1, <1>2, RepType, ApproverType, FinanceType, CustomerType, OwnerType
     DEF Next

\* Every variable keeps its type: in particular no status outside the
\* enumeration is written and lock_version stays a positive number.
THEOREM TypeCorrect == Spec => []TypeOK
BY InitType, StepType, PTL DEF Spec

-----------------------------------------------------------------------------
(***************************************************************************)
(* What any step does to the quotation and to one version's approvals.     *)
(***************************************************************************)

\* Statuses of a manager step nobody has decided.
Undecided == {"pending", "superseded", "cancelled"}

\* lock_version never goes back and moves with the version; only the version
\* being created gets a route.
QuoteEffect ==
  /\ lock <= lock'
  /\ \/ version' = version /\ route' = route
     \/ /\ version' = version + 1
        /\ lock < lock'
        /\ \A v \in Versions : v # version + 1 => route'[v] = route[v]

\* Steps are never removed; a new one is the manager's, on submission of the
\* current version, or Finance's, once the manager's has been decided.
StepsEffect(v) ==
  /\ \A i \in DOMAIN steps[v] :
       i \in DOMAIN steps'[v] /\ steps'[v][i].role = steps[v][i].role
  /\ 1 \in DOMAIN steps[v] /\ steps[v][1].status \notin Undecided =>
       steps'[v][1].status \notin Undecided
  /\ \A i \in DOMAIN steps'[v] \ DOMAIN steps[v] :
       \/ /\ v = version /\ version' = version
          /\ steps[v] = <<>> /\ route[v] # "none"
          /\ i = 1 /\ steps'[v][1].role = "sales_manager"
       \/ /\ 1 \in DOMAIN steps[v] /\ i # 1
          /\ steps'[v][i].role = "finance_operations"
          /\ steps'[v][1].status \notin Undecided

\* Superseding pending steps is such a step.
LEMMA SupersedingEffect ==
  ASSUME TypeOK, NEW v \in Versions,
         steps'[v] = ClosePending(steps[v], "superseded")
  PROVE  StepsEffect(v)
<1>1. steps[v] \in Seq(Step)
  BY DEF TypeOK
<1> QED
  BY <1>1, ClosePendingKeeps DEF StepStatuses, StepsEffect, Undecided

\* So is a decision on one step.
LEMMA DecisionEffect ==
  ASSUME TypeOK, NEW v \in Versions, NEW i \in Nat,
         NEW to \in StepStatuses \ Undecided,
         steps'[v] = SetStep(v, i, to)
  PROVE  StepsEffect(v)
<1>1. /\ DOMAIN steps'[v] = DOMAIN steps[v]
      /\ \A j \in DOMAIN steps[v] :
           /\ steps'[v][j].role = steps[v][j].role
           /\ steps'[v][j].status = IF j = i THEN to ELSE steps[v][j].status
  BY SetStepKeeps DEF TypeOK
<1> QED
  BY <1>1 DEF StepsEffect

\* So is a manager's decision that opens Finance's step.
LEMMA HandOnEffect ==
  ASSUME TypeOK, NEW v \in Versions, 1 \in DOMAIN steps[v],
         NEW to \in StepStatuses \ Undecided,
         steps'[v] = Append(SetStep(v, 1, to), FinanceStep)
  PROVE  StepsEffect(v)
<1> DEFINE t == SetStep(v, 1, to)
           n == Len(steps[v])
<1>1. /\ t \in Seq(Step)
      /\ DOMAIN t = DOMAIN steps[v]
      /\ \A j \in DOMAIN steps[v] :
           /\ t[j].role = steps[v][j].role
           /\ t[j].status = IF j = 1 THEN to ELSE steps[v][j].status
  BY SetStepKeeps DEF TypeOK
<1>2. n \in Nat /\ DOMAIN steps[v] = 1..n /\ Len(t) = n
  BY <1>1 DEF TypeOK
<1>3. FinanceStep \in Step /\ FinanceStep.role = "finance_operations"
  BY DEF FinanceStep, Step
<1>4. /\ DOMAIN steps'[v] = 1..(n + 1)
      /\ \A j \in 1..n : steps'[v][j] = t[j]
      /\ steps'[v][n + 1] = FinanceStep
  <2>1. steps'[v] = Append(t, FinanceStep)
    OBVIOUS
  <2> HIDE DEF t
  <2> QED
    BY <1>1, <1>2, <1>3, <2>1
<1>5. steps'[v][1].status \notin Undecided
  BY <1>1, <1>2, <1>4
<1>6. \A j \in DOMAIN steps'[v] \ DOMAIN steps[v] : j = n + 1 /\ j # 1
  BY <1>2, <1>4
<1> QED
  BY <1>1, <1>2, <1>3, <1>4, <1>5, <1>6 DEF StepsEffect

\* So is a rejection, which cancels the other pending steps of the version.
LEMMA RejectionEffect ==
  ASSUME TypeOK, NEW v \in Versions, NEW i \in Nat,
         steps'[v] = ClosePending(SetStep(v, i, "rejected"), "cancelled")
  PROVE  StepsEffect(v)
<1> DEFINE t == SetStep(v, i, "rejected")
<1>1. {"rejected", "cancelled"} \subseteq StepStatuses
  BY DEF StepStatuses
<1>2. /\ t \in Seq(Step)
      /\ DOMAIN t = DOMAIN steps[v]
      /\ \A j \in DOMAIN steps[v] :
           /\ t[j].role = steps[v][j].role
           /\ t[j].status = IF j = i THEN "rejected" ELSE steps[v][j].status
  BY <1>1, SetStepKeeps DEF TypeOK
<1>3. /\ DOMAIN steps'[v] = DOMAIN t
      /\ \A j \in DOMAIN t :
           /\ steps'[v][j].role = t[j].role
           /\ steps'[v][j].status =
                IF t[j].status = "pending" THEN "cancelled" ELSE t[j].status
  <2>1. steps'[v] = ClosePending(t, "cancelled")
    OBVIOUS
  <2> HIDE DEF t
  <2> QED
    BY <1>1, <1>2, <2>1, ClosePendingKeeps
<1> QED
  BY <1>2, <1>3 DEF StepsEffect, Undecided

\* A step that leaves a version's approvals alone.
LEMMA NoEffect ==
  ASSUME NEW v \in Versions, steps'[v] = steps[v]
  PROVE  StepsEffect(v)
BY DEF StepsEffect

\* A step that enters "draft" leaves nothing pending, one that enters "pending
\* manager approval" opens the manager's step, and one that does neither and
\* keeps the status keeps the version and the steps too.
StatusEffect ==
  \/ UNCHANGED <<status, version, steps>>
  \/ /\ status' = "draft"
     /\ \A v \in Versions : \A i \in DOMAIN steps'[v] :
          steps'[v][i].status # "pending"
  \/ /\ status' = "pending_manager_approval"
     /\ version' = version
     /\ steps'[version] = <<ManagerStep>>
  \/ status' \notin {"draft", "pending_manager_approval"}

\* Only a submission of a version without steps writes without lock_version.
LockEffect ==
  lock' = lock => \/ UNCHANGED <<status, version, steps>>
                  \/ version' = version /\ steps[version] = <<>>

Effect ==
  /\ QuoteEffect
  /\ StatusEffect
  /\ LockEffect
  /\ \A v \in Versions : StepsEffect(v)

\* A move to another status, with the version and its route left alone.
LEMMA MoveToEffect ==
  ASSUME TypeOK, NEW s, MoveTo(s), version' = version, route' = route,
         s \notin {"draft", "pending_manager_approval"}
  PROVE  QuoteEffect /\ StatusEffect /\ LockEffect
BY DEF TypeOK, MoveTo, QuoteEffect, StatusEffect, LockEffect

\* A new version, whose bound keeps lock_version a number that grows.
LEMMA NewVersionEffect ==
  ASSUME TypeOK, NEW r \in Routes, NEW s, NewVersion(r, s)
  PROVE  QuoteEffect /\ LockEffect /\ status' = s /\ version' = version + 1
<1>1. lock \in Nat /\ version \in Nat /\ route \in [Versions -> Routes]
  BY DEF TypeOK, Versions
<1> QED
  BY <1>1 DEF NewVersion, MoveTo, QuoteEffect, LockEffect

\* A step that leaves the quotation and its approvals alone.
LEMMA QuietEffect ==
  ASSUME TypeOK, UNCHANGED <<quoteVars, steps>>
  PROVE  Effect
<1>1. lock \in Nat
  BY DEF TypeOK
<1> QED
  BY <1>1, NoEffect
     DEF quoteVars, Effect, QuoteEffect, StatusEffect, LockEffect

\* The sales representative's requests have this effect.
LEMMA RepEffect ==
  ASSUME IInv, RepNext
  PROVE  Effect
<1>1. TypeOK /\ StepsFollowRoute
  BY DEF IInv
<1>2. \A v \in Versions :
        /\ ClosePending(steps[v], "superseded") \in Seq(Step)
        /\ \A i \in DOMAIN ClosePending(steps[v], "superseded") :
             ClosePending(steps[v], "superseded")[i].status # "pending"
  <2> SUFFICES ASSUME NEW v \in Versions
               PROVE  /\ ClosePending(steps[v], "superseded") \in Seq(Step)
                      /\ \A i \in DOMAIN ClosePending(steps[v], "superseded") :
                           ClosePending(steps[v], "superseded")[i].status # "pending"
    OBVIOUS
  <2>1. steps[v] \in Seq(Step) /\ "superseded" \in StepStatuses
    BY <1>1 DEF TypeOK, StepStatuses
  <2> QED
    BY <2>1, ClosePendingKeeps
<1>3. lock \in Nat /\ version \in Versions /\ version \in Nat
  BY <1>1 DEF TypeOK, Versions
<1>4. ASSUME NEW b \in Staff, NEW r \in Routes, CreateRevision(b, r)
      PROVE  Effect
  <2>1. /\ QuoteEffect /\ LockEffect
        /\ status' = "draft" /\ version' = version + 1
    BY <1>1, <1>4, NewVersionEffect DEF CreateRevision
  <2>2. \A v \in Versions :
          steps'[v] = IF v = version + 1 THEN steps[v]
                      ELSE ClosePending(steps[v], "superseded")
    BY <1>4 DEF CreateRevision, SupersedeOthers
  <2>3. version + 1 \in Versions => steps[version + 1] = <<>>
    BY <1>1, <1>3 DEF StepsFollowRoute
  <2>4. StatusEffect
    <3>1. ASSUME NEW v \in Versions, NEW i \in DOMAIN steps'[v]
          PROVE  steps'[v][i].status # "pending"
      BY <1>2, <2>2, <2>3
    <3> QED
      BY <2>1, <3>1 DEF StatusEffect
  <2>5. ASSUME NEW v \in Versions PROVE StepsEffect(v)
    BY <1>1, <2>2, NoEffect, SupersedingEffect
  <2> QED
    BY <2>1, <2>4, <2>5 DEF Effect
<1>5. ASSUME NEW r \in Routes, AcceptUpsell(r)
      PROVE  Effect
  <2>1. /\ QuoteEffect /\ LockEffect /\ status' = "draft"
    BY <1>1, <1>5, NewVersionEffect DEF AcceptUpsell
  <2>2. \A v \in Versions : steps'[v] = ClosePending(steps[v], "superseded")
    BY <1>5 DEF AcceptUpsell
  <2>3. StatusEffect
    BY <1>2, <2>1, <2>2 DEF StatusEffect
  <2>4. ASSUME NEW v \in Versions PROVE StepsEffect(v)
    BY <1>1, <2>2, SupersedingEffect
  <2> QED
    BY <2>1, <2>3, <2>4 DEF Effect
<1>6. CASE SubmitWithoutRisk
  <2>1. steps[version] = <<>>
    BY <1>1, <1>3, <1>6 DEF SubmitWithoutRisk, StepsFollowRoute
  <2>2. QuoteEffect /\ StatusEffect /\ LockEffect
    BY <1>3, <1>6, <2>1
       DEF SubmitWithoutRisk, QuoteEffect, StatusEffect, LockEffect
  <2>3. \A v \in Versions :
          steps'[v] = IF v = version THEN steps[v]
                      ELSE ClosePending(steps[v], "superseded")
    BY <1>6 DEF SubmitWithoutRisk, SupersedeOthers
  <2>4. ASSUME NEW v \in Versions PROVE StepsEffect(v)
    BY <1>1, <2>3, NoEffect, SupersedingEffect
  <2> QED
    BY <2>2, <2>4 DEF Effect
<1>7. CASE SubmitForApproval
  <2>1. \A v \in Versions :
          steps'[v] = IF v = version THEN <<ManagerStep>>
                      ELSE ClosePending(steps[v], "superseded")
    BY <1>7 DEF SubmitForApproval, SupersedeOthers
  <2>2. QuoteEffect /\ StatusEffect /\ LockEffect
    BY <1>3, <1>7, <2>1
       DEF SubmitForApproval, QuoteEffect, StatusEffect, LockEffect
  <2>3. StepsEffect(version)
    BY <1>3, <1>7, <2>1 DEF SubmitForApproval, StepsEffect, ManagerStep
  <2>4. ASSUME NEW v \in Versions PROVE StepsEffect(v)
    BY <1>1, <2>1, <2>3, SupersedingEffect
  <2> QED
    BY <2>2, <2>4 DEF Effect
<1>8. CASE SendToCustomer
  <2>1. QuoteEffect /\ StatusEffect /\ LockEffect
    BY <1>1, <1>8, MoveToEffect DEF SendToCustomer
  <2> QED
    BY <1>8, <2>1, NoEffect DEF SendToCustomer, Effect
<1> QED
  BY <1>4, <1>5, <1>6, <1>7, <1>8 DEF RepNext

\* A /manager decision writes the status it decides and its step's version only.
LEMMA CommitDecisionEffect ==
  ASSUME IInv, NEW a \in Approvers,
         NEW s \in {"approved", "rejected", "returned_for_revision",
                    "pending_finance_approval"},
         CommitDecision(a, s), NEW q,
         steps' = [steps EXCEPT ![approving[a].version] = q],
         StepsEffect(approving[a].version)
  PROVE  Effect
<1>1. TypeOK
  BY DEF IInv
<1>2. QuoteEffect /\ StatusEffect /\ LockEffect
  BY <1>1, MoveToEffect DEF CommitDecision
<1>3. ASSUME NEW v \in Versions PROVE StepsEffect(v)
  <2>1. v # approving[a].version => steps'[v] = steps[v]
    BY <1>1 DEF TypeOK
  <2> QED
    BY <2>1, NoEffect
<1> QED
  BY <1>2, <1>3 DEF Effect

\* The /manager approval requests have this effect.
LEMMA ApproverEffect ==
  ASSUME IInv, ApproverNext
  PROVE  Effect
<1>1. TypeOK /\ StepsFollowRoute /\ SessionsNameSteps
  BY DEF IInv
<1>2. {"approved", "rejected", "returned_for_revision", "escalated"}
        \subseteq StepStatuses \ Undecided
  BY DEF StepStatuses, Undecided
<1>3. ASSUME NEW a \in Approvers, approving[a].pc = "quote"
      PROVE  /\ approving[a].version \in Versions
             /\ approving[a].step \in DOMAIN steps[approving[a].version]
             /\ approving[a].step \in Nat
  BY <1>1, <1>3 DEF SessionsNameSteps, TypeOK
<1>4. ASSUME NEW v \in Versions, NEW i \in DOMAIN steps[v],
             steps[v][i].role = "sales_manager"
      PROVE  i = 1
  BY <1>1, <1>4 DEF StepsFollowRoute
<1>5. ASSUME NEW a \in Approvers, ApproveQuotation(a)
      PROVE  Effect
  <2> DEFINE v == approving[a].version
             i == approving[a].step
  <2>1. v \in Versions /\ i \in DOMAIN steps[v] /\ i \in Nat
    BY <1>3, <1>5 DEF ApproveQuotation
  <2>2. CASE NeedsFinance(v, i)
    <3>1. /\ CommitDecision(a, "pending_finance_approval")
          /\ steps' = [steps EXCEPT ![v] = Append(SetStep(v, i, "approved"), FinanceStep)]
      BY <1>5, <2>2 DEF ApproveQuotation
    <3>2. i = 1
      BY <1>4, <2>1, <2>2 DEF NeedsFinance
    <3>3. steps'[v] = Append(SetStep(v, 1, "approved"), FinanceStep)
      BY <1>1, <2>1, <3>1, <3>2 DEF TypeOK
    <3>4. StepsEffect(v)
      BY <1>1, <1>2, <2>1, <3>2, <3>3, HandOnEffect
    <3> QED
      BY <3>1, <3>4, CommitDecisionEffect
  <2>3. CASE ~NeedsFinance(v, i)
    <3>1. /\ CommitDecision(a, "approved")
          /\ steps' = [steps EXCEPT ![v] = SetStep(v, i, "approved")]
      BY <1>5, <2>3 DEF ApproveQuotation
    <3>2. steps'[v] = SetStep(v, i, "approved")
      BY <1>1, <2>1, <3>1 DEF TypeOK
    <3>3. StepsEffect(v)
      BY <1>1, <1>2, <2>1, <3>2, DecisionEffect
    <3> QED
      BY <3>1, <3>3, CommitDecisionEffect
  <2> QED
    BY <2>2, <2>3
<1>6. ASSUME NEW a \in Approvers, RejectQuotation(a)
      PROVE  Effect
  <2> DEFINE v == approving[a].version
             i == approving[a].step
             q == ClosePending(SetStep(v, i, "rejected"), "cancelled")
  <2>1. v \in Versions /\ i \in DOMAIN steps[v] /\ i \in Nat
    BY <1>3, <1>6 DEF RejectQuotation, CommitDecision
  <2>2. CommitDecision(a, "rejected") /\ steps' = [steps EXCEPT ![v] = q]
    BY <1>6 DEF RejectQuotation
  <2>3. steps'[v] = q
    BY <1>1, <2>1, <2>2 DEF TypeOK
  <2>4. StepsEffect(v)
    BY <1>1, <2>1, <2>3, RejectionEffect
  <2> QED
    BY <2>2, <2>4, CommitDecisionEffect
<1>7. ASSUME NEW a \in Approvers, ReturnForRevision(a)
      PROVE  Effect
  <2> DEFINE v == approving[a].version
             i == approving[a].step
             q == SetStep(v, i, "returned_for_revision")
  <2>1. v \in Versions /\ i \in DOMAIN steps[v] /\ i \in Nat
    BY <1>3, <1>7 DEF ReturnForRevision, CommitDecision
  <2>2. CommitDecision(a, "returned_for_revision") /\ steps' = [steps EXCEPT ![v] = q]
    BY <1>7 DEF ReturnForRevision
  <2>3. steps'[v] = q
    BY <1>1, <2>1, <2>2 DEF TypeOK
  <2>4. StepsEffect(v)
    BY <1>1, <1>2, <2>1, <2>3, DecisionEffect
  <2> QED
    BY <2>2, <2>4, CommitDecisionEffect
<1>8. ASSUME NEW a \in Approvers, EscalateToFinance(a)
      PROVE  Effect
  <2> DEFINE v == approving[a].version
             i == approving[a].step
  <2>1. v \in Versions /\ i \in DOMAIN steps[v] /\ i \in Nat
    BY <1>3, <1>8 DEF EscalateToFinance, CommitDecision
  <2>2. /\ CommitDecision(a, "pending_finance_approval")
        /\ steps[v][i].role = "sales_manager"
        /\ steps' = [steps EXCEPT ![v] = Append(SetStep(v, i, "escalated"), FinanceStep)]
    BY <1>8 DEF EscalateToFinance
  <2>3. i = 1
    BY <1>4, <2>1, <2>2
  <2>4. steps'[v] = Append(SetStep(v, 1, "escalated"), FinanceStep)
    BY <1>1, <2>1, <2>2, <2>3 DEF TypeOK
  <2>5. StepsEffect(v)
    BY <1>1, <1>2, <2>1, <2>3, <2>4, HandOnEffect
  <2> QED
    BY <2>2, <2>5, CommitDecisionEffect
<1>9. ASSUME NEW v \in Versions, NEW i \in DOMAIN steps[v],
             BeginCustomerNegotiation(v, i)
      PROVE  Effect
  <2>1. i \in Nat
    BY <1>1 DEF TypeOK
  <2>2. \A w \in Versions :
          steps'[w] = IF w = v THEN SetStep(v, i, "returned_for_revision") ELSE steps[w]
    BY <1>1, <1>9 DEF BeginCustomerNegotiation, TypeOK
  <2>3. QuoteEffect /\ StatusEffect /\ LockEffect
    BY <1>1, <1>9, MoveToEffect DEF BeginCustomerNegotiation
  <2>4. ASSUME NEW w \in Versions PROVE StepsEffect(w)
    BY <1>1, <1>2, <2>1, <2>2, NoEffect, DecisionEffect
  <2> QED
    BY <2>3, <2>4 DEF Effect
<1>10. ASSUME NEW a \in Approvers,
              \/ \E v \in Versions : \E i \in DOMAIN steps[v] : ReadApproval(a, v, i)
              \/ ReadLockVersion(a)
              \/ ApprovalFails(a)
       PROVE  Effect
  BY <1>1, <1>10, QuietEffect DEF ReadApproval, ReadLockVersion, ApprovalFails
<1> QED
  BY <1>5, <1>6, <1>7, <1>8, <1>9, <1>10 DEF ApproverNext

\* The Finance decision endpoint has this effect.
LEMMA FinanceEffect ==
  ASSUME IInv, FinanceNext
  PROVE  Effect
<1>1. TypeOK /\ SessionsNameSteps
  BY DEF IInv
<1>2. ASSUME NEW f \in Financiers, NEW d \in FinanceDecisions, DecideApproval(f, d)
      PROVE  Effect
  <2> DEFINE v == deciding[f].version
             i == deciding[f].step
  <2>1. v \in Versions /\ i \in DOMAIN steps[v] /\ i \in Nat
    BY <1>1, <1>2 DEF DecideApproval, SessionsNameSteps, TypeOK
  <2>2. \A w \in Versions :
          steps'[w] = IF w = v THEN SetStep(v, i, d) ELSE steps[w]
    BY <1>1, <1>2 DEF DecideApproval, TypeOK
  <2>3. d \in StepStatuses \ Undecided
        /\ d \notin {"draft", "pending_manager_approval"}
    BY DEF FinanceDecisions, StepStatuses, Undecided
  <2>4. QuoteEffect /\ StatusEffect /\ LockEffect
    BY <1>1, <1>2, <2>3, MoveToEffect DEF DecideApproval
  <2>5. ASSUME NEW w \in Versions PROVE StepsEffect(w)
    BY <1>1, <2>1, <2>2, <2>3, NoEffect, DecisionEffect
  <2> QED
    BY <2>4, <2>5 DEF Effect
<1>3. ASSUME NEW f \in Financiers,
             \/ \E v \in Versions : \E i \in DOMAIN steps[v] : FindInstance(f, v, i)
             \/ FindQuote(f)
             \/ FindCurrentVersion(f)
             \/ FindPriorStep(f)
             \/ FinanceFails(f)
      PROVE  Effect
  BY <1>1, <1>3, QuietEffect
     DEF FindInstance, FindQuote, FindCurrentVersion, FindPriorStep, FinanceFails
<1> QED
  BY <1>2, <1>3 DEF FinanceNext

\* The customer's and the negotiation owner's requests have this effect.
LEMMA CustomerAndOwnerEffect ==
  ASSUME IInv, CustomerNext \/ OwnerNext
  PROVE  Effect
<1>1. TypeOK
  BY DEF IInv
<1>2. ASSUME NEW c \in Customers,
             \/ AcceptQuote(c) \/ RejectQuote(c) \/ SubmitCounter(c)
             \/ \E o \in {"sales_rep", "sales_manager"} :
                  SubmitStructuredNegotiation(c, o)
      PROVE  Effect
  <2>1. /\ version' = version /\ route' = route /\ steps' = steps
        /\ \E s \in {"customer_confirmed", "rejected", "under_negotiation"} :
             MoveTo(s)
    BY <1>2 DEF AcceptQuote, RejectQuote, SubmitCounter, SubmitStructuredNegotiation
  <2>2. QuoteEffect /\ StatusEffect /\ LockEffect
    BY <1>1, <2>1, MoveToEffect
  <2> QED
    BY <2>1, <2>2, NoEffect DEF Effect
<1>3. ASSUME NEW c \in Customers, ResolveCase(c) \/ CrashBeforeResolve(c)
      PROVE  Effect
  BY <1>1, <1>3, QuietEffect DEF ResolveCase, CrashBeforeResolve
<1>4. ASSUME NEW b \in Staff, NEW r \in Routes, ReviseCase(b, r)
      PROVE  Effect
  <2>1. QuoteEffect /\ LockEffect /\ status' = "sent_to_customer" /\ steps' = steps
    BY <1>1, <1>4, NewVersionEffect DEF ReviseCase
  <2> QED
    BY <2>1, NoEffect DEF Effect, StatusEffect
<1>5. CASE ForwardToFinance
  BY <1>1, <1>5, QuietEffect DEF ForwardToFinance
<1> QED
  BY <1>2, <1>3, <1>4, <1>5 DEF CustomerNext, OwnerNext

\* Every step of the quotation has this effect.
LEMMA StepEffect ==
  ASSUME IInv, [Next]_vars
  PROVE  Effect
<1>1. TypeOK
  BY DEF IInv
<1>2. ASSUME NEW b \in Browsers, Load(b) PROVE Effect
  BY <1>1, <1>2, QuietEffect DEF Load
<1>3. CASE UNCHANGED vars
  BY <1>1, <1>3, QuietEffect DEF vars, quoteVars
<1> QED
  BY <1>2, <1>3, RepEffect, ApproverEffect, FinanceEffect, CustomerAndOwnerEffect
     DEF Next

-----------------------------------------------------------------------------
(***************************************************************************)
(* The inductive invariant, one conjunct at a time.                        *)
(***************************************************************************)

\* Only Load changes what a browser has been shown.
LEMMA SeenChanges ==
  ASSUME [Next]_vars
  PROVE  seen' = seen \/ \E b \in Browsers : Load(b)
BY DEF Next, RepNext, ApproverNext, FinanceNext, CustomerNext, OwnerNext, vars,
       sessionVars, CreateRevision, AcceptUpsell, SubmitWithoutRisk,
       SubmitForApproval, SendToCustomer, ReadApproval, ReadLockVersion,
       ApproveQuotation, RejectQuotation, ReturnForRevision, EscalateToFinance,
       CommitDecision, ApprovalFails, BeginCustomerNegotiation, FindInstance,
       FindQuote, FindCurrentVersion, FindPriorStep, DecideApproval, FinanceFails,
       AcceptQuote, ResolveCase, CrashBeforeResolve, RejectQuote, SubmitCounter,
       SubmitStructuredNegotiation, ReviseCase, ForwardToFinance

\* A step that makes a version current moves lock_version past every token.
LEMMA TokenIdentifiesVersionStep ==
  ASSUME IInv, TypeOK', [Next]_vars
  PROVE  TokenIdentifiesVersion'
<1>1. TypeOK /\ TokenIdentifiesVersion
  BY DEF IInv
<1>2. QuoteEffect
  BY StepEffect DEF Effect
<1>3. /\ lock \in Nat /\ lock' \in Nat
      /\ \A b \in Browsers : seen[b].lock \in Nat
  BY <1>1 DEF TypeOK, Token
<1>4. CASE seen' = seen
  BY <1>1, <1>2, <1>3, <1>4 DEF TokenIdentifiesVersion, QuoteEffect
<1>5. ASSUME NEW b \in Browsers, Load(b)
      PROVE  TokenIdentifiesVersion'
  BY <1>1, <1>3, <1>5 DEF Load, quoteVars, TokenIdentifiesVersion, TypeOK
<1> QED
  BY <1>4, <1>5, SeenChanges

\* Approval steps are only added to versions that exist, as their route says.
LEMMA StepsFollowRouteStep ==
  ASSUME IInv, TypeOK', [Next]_vars
  PROVE  StepsFollowRoute'
<1>1. TypeOK /\ StepsFollowRoute
  BY DEF IInv
<1>2. QuoteEffect /\ \A v \in Versions : StepsEffect(v)
  BY StepEffect DEF Effect
<1>3. version \in Nat
  BY <1>1 DEF TypeOK, Versions
<1> SUFFICES ASSUME NEW v \in Versions
             PROVE  /\ v > version' => steps'[v] = <<>>
                    /\ route'[v] = "none" => steps'[v] = <<>>
                    /\ \A i \in DOMAIN steps'[v] :
                         steps'[v][i].role = "sales_manager" <=> i = 1
  BY DEF StepsFollowRoute
<1>4. v \in Nat /\ steps[v] \in Seq(Step) /\ steps'[v] \in Seq(Step)
  BY <1>1 DEF TypeOK, Versions
<1>5. /\ v > version => steps[v] = <<>>
      /\ route[v] = "none" => steps[v] = <<>>
      /\ \A i \in DOMAIN steps[v] : steps[v][i].role = "sales_manager" <=> i = 1
  BY <1>1 DEF StepsFollowRoute
<1>6. \* A version gets its first step when it is submitted, and then has a route.
      steps[v] = <<>> /\ steps'[v] # <<>> =>
        v = version /\ version' = version /\ route[v] # "none"
  <2>1. steps'[v] # <<>> => 1 \in DOMAIN steps'[v]
    BY <1>4, EmptySeq
  <2>2. steps[v] = <<>> => DOMAIN steps[v] = {}
    OBVIOUS
  <2> QED
    BY <1>2, <2>1, <2>2 DEF StepsEffect
<1>7. v > version' => steps'[v] = <<>>
  BY <1>2, <1>3, <1>4, <1>5, <1>6 DEF QuoteEffect
<1>8. route'[v] = "none" => steps'[v] = <<>>
  BY <1>2, <1>3, <1>4, <1>5, <1>6 DEF QuoteEffect
<1>9. ASSUME NEW i \in DOMAIN steps'[v]
      PROVE  steps'[v][i].role = "sales_manager" <=> i = 1
  <2>1. CASE i \in DOMAIN steps[v]
    BY <1>2, <1>5, <2>1 DEF StepsEffect
  <2>2. CASE i \notin DOMAIN steps[v]
    BY <1>2, <1>9, <2>2 DEF StepsEffect
  <2> QED
    BY <2>1, <2>2
<1> QED
  BY <1>7, <1>8, <1>9

\* Whatever decides the manager's first step also changes the quotation's status.
LEMMA PendingManagerHasWorkStep ==
  ASSUME IInv, TypeOK', [Next]_vars
  PROVE  PendingManagerHasWork'
<1>1. PendingManagerHasWork
  BY DEF IInv
<1>2. StatusEffect
  BY StepEffect DEF Effect
<1>3. CASE UNCHANGED <<status, version, steps>>
  BY <1>1, <1>3 DEF PendingManagerHasWork
<1>4. CASE version' = version /\ steps'[version] = <<ManagerStep>>
  BY <1>4 DEF PendingManagerHasWork
<1> QED
  BY <1>2, <1>3, <1>4 DEF StatusEffect, PendingManagerHasWork

\* Finance's step is added by the decision on the manager's, which stays decided.
LEMMA FinanceStepAfterManagerStep ==
  ASSUME IInv, TypeOK', StepsFollowRoute', [Next]_vars
  PROVE  FinanceStepAfterManager'
<1>1. TypeOK /\ FinanceStepAfterManager
  BY DEF IInv
<1>2. \A v \in Versions : StepsEffect(v)
  BY StepEffect DEF Effect
<1> SUFFICES ASSUME NEW v \in Versions, NEW i \in DOMAIN steps'[v],
                    steps'[v][i].role = "finance_operations"
             PROVE  /\ i > 1
                    /\ steps'[v][1].role = "sales_manager"
                    /\ steps'[v][1].status \notin Undecided
  BY DEF FinanceStepAfterManager, Undecided
<1>3. steps[v] \in Seq(Step) /\ steps'[v] \in Seq(Step)
  BY <1>1 DEF TypeOK
<1>4. i \in Nat /\ i > 1 /\ 1 \in DOMAIN steps'[v]
  <2>1. i # 1
    BY DEF StepsFollowRoute
  <2> QED
    BY <1>3, <2>1
<1>5. steps'[v][1].role = "sales_manager"
  BY <1>4 DEF StepsFollowRoute
<1>6. CASE i \in DOMAIN steps[v]
  <2>1. steps[v][i].role = "finance_operations"
    BY <1>2, <1>6 DEF StepsEffect
  <2>2. steps[v][1].status \notin Undecided
    BY <1>1, <1>6, <2>1 DEF FinanceStepAfterManager, Undecided
  <2>3. 1 \in DOMAIN steps[v]
    BY <1>3, <1>6
  <2> QED
    BY <1>2, <1>4, <1>5, <2>2, <2>3 DEF StepsEffect
<1>7. CASE i \notin DOMAIN steps[v]
  BY <1>2, <1>4, <1>5, <1>7 DEF StepsEffect
<1> QED
  BY <1>6, <1>7

\* A version that becomes a draft supersedes what was pending.
LEMMA DraftHasNoPendingStepStep ==
  ASSUME IInv, [Next]_vars
  PROVE  DraftHasNoPendingStep'
<1>1. DraftHasNoPendingStep
  BY DEF IInv
<1>2. StatusEffect
  BY StepEffect DEF Effect
<1>3. CASE UNCHANGED <<status, version, steps>>
  BY <1>1, <1>3 DEF DraftHasNoPendingStep
<1> QED
  BY <1>2, <1>3 DEF StatusEffect, DraftHasNoPendingStep

\* What an approval request may do to its session.
ApprovingEffect(a) ==
  \/ approving'[a] = approving[a]
  \/ approving'[a] = Idle
  \/ \E v \in Versions : \E i \in DOMAIN steps[v] :
       approving'[a] = At("instance", v, i, 0)
  \/ /\ approving[a].pc = "instance"
     /\ approving'[a] = At("quote", approving[a].version, approving[a].step, lock)

\* What a Finance request may do to its session: begin on a Finance step, read
\* the quotation, compare the version, look at the step before, or end.
DecidingEffect(f) ==
  LET s == deciding[f]
  IN \/ deciding'[f] = s
     \/ deciding'[f] = Idle
     \/ \E v \in Versions : \E i \in DOMAIN steps[v] :
          /\ steps[v][i].role = "finance_operations"
          /\ deciding'[f] = At("instance", v, i, 0)
     \/ /\ UNCHANGED <<quoteVars, steps>>
        /\ \/ /\ s.pc = "instance" /\ status = "pending_finance_approval"
              /\ deciding'[f] = At("quote", s.version, s.step, lock)
           \/ /\ s.pc = "quote" /\ s.version = version
              /\ deciding'[f] = At("version", s.version, s.step, s.lock)
           \/ /\ s.pc = "version" /\ PriorApproved(s.version, s.step)
              /\ deciding'[f] = At("checked", s.version, s.step, s.lock)

\* What a request does to what the approval and decision requests have read.
LEMMA SessionEffects ==
  ASSUME TypeOK, [Next]_vars
  PROVE  /\ \A a \in Approvers : ApprovingEffect(a)
         /\ \A f \in Financiers : DecidingEffect(f)
<1>1. CASE approving' = approving /\ deciding' = deciding
  BY <1>1 DEF ApprovingEffect, DecidingEffect
<1>2. CASE ApproverNext
  <2>1. CASE \E v \in Versions : \E i \in DOMAIN steps[v] :
               BeginCustomerNegotiation(v, i)
    BY <1>1, <2>1 DEF BeginCustomerNegotiation, sessionVars
  <2>2. ASSUME NEW a \in Approvers,
               NEW s, approving' = [approving EXCEPT ![a] = s],
               \/ s = Idle
               \/ \E v \in Versions : \E i \in DOMAIN steps[v] :
                    s = At("instance", v, i, 0)
               \/ /\ approving[a].pc = "instance"
                  /\ s = At("quote", approving[a].version, approving[a].step, lock),
               deciding' = deciding
        PROVE  /\ \A b \in Approvers : ApprovingEffect(b)
               /\ \A f \in Financiers : DecidingEffect(f)
    BY <2>2 DEF TypeOK, ApprovingEffect, DecidingEffect
  <2>3. ASSUME NEW a \in Approvers, NEW v \in Versions, NEW i \in DOMAIN steps[v],
               ReadApproval(a, v, i)
        PROVE  /\ \A b \in Approvers : ApprovingEffect(b)
               /\ \A f \in Financiers : DecidingEffect(f)
    BY <2>2, <2>3 DEF ReadApproval
  <2>4. ASSUME NEW a \in Approvers,
               ReadLockVersion(a) \/ ApprovalFails(a) \/ ApproveQuotation(a)
               \/ RejectQuotation(a) \/ ReturnForRevision(a) \/ EscalateToFinance(a)
        PROVE  /\ \A b \in Approvers : ApprovingEffect(b)
               /\ \A f \in Financiers : DecidingEffect(f)
    BY <2>2, <2>4 DEF ReadLockVersion, ApprovalFails, ApproveQuotation,
       RejectQuotation, ReturnForRevision, EscalateToFinance, CommitDecision
  <2> QED
    BY <1>2, <2>1, <2>3, <2>4 DEF ApproverNext
<1>3. CASE FinanceNext
  <2>1. ASSUME NEW f \in Financiers, NEW v \in Versions, NEW i \in DOMAIN steps[v],
               FindInstance(f, v, i)
        PROVE  approving' = approving /\ \A g \in Financiers : DecidingEffect(g)
    BY <2>1 DEF TypeOK, FindInstance, DecidingEffect
  <2>2. ASSUME NEW f \in Financiers, FindQuote(f)
        PROVE  approving' = approving /\ \A g \in Financiers : DecidingEffect(g)
    BY <2>2 DEF TypeOK, FindQuote, DecidingEffect
  <2>3. ASSUME NEW f \in Financiers, FindCurrentVersion(f)
        PROVE  approving' = approving /\ \A g \in Financiers : DecidingEffect(g)
    BY <2>3 DEF TypeOK, FindCurrentVersion, DecidingEffect
  <2>4. ASSUME NEW f \in Financiers, FindPriorStep(f)
        PROVE  approving' = approving /\ \A g \in Financiers : DecidingEffect(g)
    BY <2>4 DEF TypeOK, FindPriorStep, DecidingEffect
  <2>5. ASSUME NEW f \in Financiers,
               FinanceFails(f) \/ \E d \in FinanceDecisions : DecideApproval(f, d)
        PROVE  approving' = approving /\ \A g \in Financiers : DecidingEffect(g)
    BY <2>5 DEF TypeOK, FinanceFails, DecideApproval, DecidingEffect
  <2>6. approving' = approving => \A a \in Approvers : ApprovingEffect(a)
    BY DEF ApprovingEffect
  <2> QED
    BY <1>3, <2>1, <2>2, <2>3, <2>4, <2>5, <2>6 DEF FinanceNext
<1>4. CASE RepNext
  BY <1>1, <1>4 DEF RepNext, sessionVars, CreateRevision, AcceptUpsell,
     SubmitWithoutRisk, SubmitForApproval, SendToCustomer
<1>5. CASE CustomerNext \/ OwnerNext
  BY <1>1, <1>5 DEF CustomerNext, OwnerNext, sessionVars, AcceptQuote, ResolveCase,
     CrashBeforeResolve, RejectQuote, SubmitCounter, SubmitStructuredNegotiation,
     ReviseCase, ForwardToFinance
<1>6. CASE (\E b \in Browsers : Load(b)) \/ UNCHANGED vars
  BY <1>1, <1>6 DEF Load, vars
<1> QED
  BY <1>2, <1>3, <1>4, <1>5, <1>6 DEF Next

\* The fields of a session.
LEMMA AtFields ==
  \A pc, v, i, l : /\ At(pc, v, i, l).pc = pc
                   /\ At(pc, v, i, l).version = v
                   /\ At(pc, v, i, l).step = i
                   /\ At(pc, v, i, l).lock = l
BY DEF At

\* The step a request works on is never deleted and never changes its role.
LEMMA SessionsNameStepsStep ==
  ASSUME IInv, [Next]_vars
  PROVE  SessionsNameSteps'
<1>1. TypeOK /\ SessionsNameSteps
  BY DEF IInv
<1>2. \A v \in Versions : \A i \in DOMAIN steps[v] :
        i \in DOMAIN steps'[v] /\ steps'[v][i].role = steps[v][i].role
  BY StepEffect DEF Effect, StepsEffect
<1>3. ASSUME NEW a \in Approvers, approving'[a].pc # "idle"
      PROVE  /\ approving'[a].version \in Versions
             /\ approving'[a].step \in DOMAIN steps'[approving'[a].version]
  <2>1. ApprovingEffect(a)
    BY <1>1, SessionEffects
  <2>2. CASE /\ approving[a].pc # "idle"
             /\ approving'[a].version = approving[a].version
             /\ approving'[a].step = approving[a].step
    BY <1>1, <1>2, <2>2 DEF SessionsNameSteps
  <2>3. ASSUME NEW v \in Versions, NEW i \in DOMAIN steps[v],
               approving'[a] = At("instance", v, i, 0)
        PROVE  /\ approving'[a].version \in Versions
               /\ approving'[a].step \in DOMAIN steps'[approving'[a].version]
    BY <1>2, <2>3, AtFields
  <2> QED
    BY <1>3, <2>1, <2>2, <2>3, AtFields DEF ApprovingEffect, Idle
<1>4. ASSUME NEW f \in Financiers, deciding'[f].pc # "idle"
      PROVE  LET v == deciding'[f].version
                 i == deciding'[f].step
             IN v \in Versions /\ i \in DOMAIN steps'[v]
                /\ steps'[v][i].role = "finance_operations"
  <2>1. DecidingEffect(f)
    BY <1>1, SessionEffects
  <2>2. CASE /\ deciding[f].pc # "idle"
             /\ deciding'[f].version = deciding[f].version
             /\ deciding'[f].step = deciding[f].step
    BY <1>1, <1>2, <2>2 DEF SessionsNameSteps
  <2>3. ASSUME NEW v \in Versions, NEW i \in DOMAIN steps[v],
               steps[v][i].role = "finance_operations",
               deciding'[f] = At("instance", v, i, 0)
        PROVE  LET w == deciding'[f].version
                   j == deciding'[f].step
               IN w \in Versions /\ j \in DOMAIN steps'[w]
                  /\ steps'[w][j].role = "finance_operations"
    BY <1>2, <2>3, AtFields
  <2> QED
    BY <1>4, <2>1, <2>2, <2>3, AtFields DEF DecidingEffect, Idle
<1> QED
  BY <1>3, <1>4 DEF SessionsNameSteps

\* Writers that leave lock_version alone do not touch what Finance has read.
LEMMA FinanceReadsStandStep ==
  ASSUME IInv, TypeOK', [Next]_vars
  PROVE  FinanceReadsStand'
<1>1. TypeOK /\ SessionsNameSteps /\ FinanceReadsStand
  BY DEF IInv
<1>2. QuoteEffect /\ LockEffect
  BY StepEffect DEF Effect
<1>3. lock \in Nat /\ lock' \in Nat
  BY <1>1 DEF TypeOK
<1> SUFFICES ASSUME NEW f \in Financiers
             PROVE  LET s == deciding'[f]
                    IN /\ s.lock <= lock'
                       /\ s.pc \in {"quote", "version", "checked"} /\ s.lock = lock' =>
                            /\ s.version = version' => status' = "pending_finance_approval"
                            /\ s.pc \in {"version", "checked"} => s.version = version'
                            /\ s.pc = "checked" /\ s.step > 1 =>
                                 steps'[s.version][s.step - 1].status = "approved"
  BY DEF FinanceReadsStand, PriorApproved
<1> DEFINE s == deciding[f]
<1>4. s.lock \in Nat /\ s.lock <= lock
  BY <1>1 DEF FinanceReadsStand, TypeOK, Session
<1>5. s.pc \in {"quote", "version", "checked"} /\ s.lock = lock =>
        /\ s.version = version => status = "pending_finance_approval"
        /\ s.pc \in {"version", "checked"} => s.version = version
        /\ s.pc = "checked" => PriorApproved(s.version, s.step)
  BY <1>1 DEF FinanceReadsStand
<1>6. CASE deciding'[f] = s /\ lock' = lock /\ UNCHANGED <<status, version, steps>>
  BY <1>4, <1>5, <1>6 DEF PriorApproved
<1>7. CASE /\ deciding'[f] = s /\ lock' = lock
           /\ version' = version /\ steps[version] = <<>>
  \* The step the request works on is then another version's, found before any
  \* comparison with the current one.
  <2>1. s.pc # "idle" => s.version # version
    <3>1. s.pc # "idle" => s.step \in DOMAIN steps[s.version]
      BY <1>1 DEF SessionsNameSteps
    <3> QED
      BY <1>7, <3>1
  <2> QED
    BY <1>4, <1>5, <1>7, <2>1
<1>8. CASE deciding'[f] = s /\ lock' # lock
  BY <1>2, <1>3, <1>4, <1>8 DEF QuoteEffect
<1>9. CASE deciding'[f] # s
  <2>1. DecidingEffect(f)
    BY <1>1, SessionEffects
  <2>2. CASE \/ deciding'[f] = Idle
             \/ \E v \in Versions : \E i \in DOMAIN steps[v] :
                  deciding'[f] = At("instance", v, i, 0)
    BY <1>3, <2>2, AtFields DEF Idle
  <2>3. CASE /\ UNCHANGED <<quoteVars, steps>>
             /\ s.pc = "instance" /\ status = "pending_finance_approval"
             /\ deciding'[f] = At("quote", s.version, s.step, lock)
    BY <1>3, <2>3, AtFields DEF quoteVars
  <2>4. CASE /\ UNCHANGED <<quoteVars, steps>>
             /\ s.pc = "quote" /\ s.version = version
             /\ deciding'[f] = At("version", s.version, s.step, s.lock)
    BY <1>4, <1>5, <2>4, AtFields DEF quoteVars
  <2>5. CASE /\ UNCHANGED <<quoteVars, steps>>
             /\ s.pc = "version" /\ PriorApproved(s.version, s.step)
             /\ deciding'[f] = At("checked", s.version, s.step, s.lock)
    BY <1>4, <1>5, <2>5, AtFields DEF quoteVars, PriorApproved
  <2> QED
    BY <1>9, <2>1, <2>2, <2>3, <2>4, <2>5 DEF DecidingEffect
<1> QED
  BY <1>2, <1>6, <1>7, <1>8, <1>9 DEF LockEffect

-----------------------------------------------------------------------------
(***************************************************************************)
(* The theorems.                                                           *)
(***************************************************************************)

\* The invariant holds of a quotation that has just been created.
LEMMA InitInvariant ==
  ASSUME Init
  PROVE  IInv
<1>1. TypeOK
  BY InitType
<1>2. lock \in Nat /\ \A v \in Versions : DOMAIN steps[v] = {}
  BY DEF Init
<1>3. TokenIdentifiesVersion
  BY DEF Init, NoToken, TokenIdentifiesVersion
<1>4. StepsFollowRoute /\ PendingManagerHasWork /\ FinanceStepAfterManager
      /\ DraftHasNoPendingStep
  BY <1>2 DEF Init, StepsFollowRoute, PendingManagerHasWork,
     FinanceStepAfterManager, DraftHasNoPendingStep
<1>5. SessionsNameSteps
  BY AtFields DEF Init, SessionsNameSteps, Idle
<1>6. FinanceReadsStand
  BY AtFields DEF Init, FinanceReadsStand, Idle
<1> QED
  BY <1>1, <1>3, <1>4, <1>5, <1>6 DEF IInv

\* Every request keeps the invariant.
LEMMA StepInvariant ==
  ASSUME IInv, [Next]_vars
  PROVE  IInv'
<1>1. TypeOK'
  BY StepType DEF IInv
<1>2. StepsFollowRoute'
  BY <1>1, StepsFollowRouteStep
<1> QED
  BY <1>1, <1>2, TokenIdentifiesVersionStep, PendingManagerHasWorkStep,
     FinanceStepAfterManagerStep, DraftHasNoPendingStepStep,
     SessionsNameStepsStep, FinanceReadsStandStep DEF IInv

\* The inductive invariant: everything below rests on it.
THEOREM Invariant == Spec => []IInv
BY InitInvariant, StepInvariant, PTL DEF Spec

\* A browser whose lock_version is still the quotation's was shown its current
\* version, through any interleaving of revisions, upsells and decisions.
THEOREM TokensAreFresh == Spec => []TokenIdentifiesVersion
<1>1. IInv => TokenIdentifiesVersion
  BY DEF IInv
<1> QED
  BY <1>1, Invariant, PTL

\* A quotation that waits for a manager always has a manager's step to decide.
THEOREM ManagersHaveWork == Spec => []PendingManagerHasWork
<1>1. IInv => PendingManagerHasWork
  BY DEF IInv
<1> QED
  BY <1>1, Invariant, PTL

\* Finance's step never exists before the manager's has been decided.
THEOREM RouteIsSequential == Spec => []FinanceStepAfterManager
<1>1. IInv => FinanceStepAfterManager
  BY DEF IInv
<1> QED
  BY <1>1, Invariant, PTL

\* While a quotation is a draft, no approval of any of its versions is pending.
THEOREM DraftsAreQuiet == Spec => []DraftHasNoPendingStep
<1>1. IInv => DraftHasNoPendingStep
  BY DEF IInv
<1> QED
  BY <1>1, Invariant, PTL

\* What Finance's four reads found still stands as long as the lock_version it
\* read does, although two kinds of request write without moving it.
THEOREM FinanceReadsAreStable == Spec => []FinanceReadsStand
<1>1. IInv => FinanceReadsStand
  BY DEF IInv
<1> QED
  BY <1>1, Invariant, PTL

\* An acceptance is of the version that the accepting browser was shown, and
\* the recurring invoice is for that version.
THEOREM AcceptanceIsInformed == Spec => AcceptsSeenTerms
<1> DEFINE A == (status' = "customer_confirmed" /\ status # "customer_confirmed") =>
        /\ version' = version
        /\ \E c \in Customers : c \in resolving' /\ seen[c].version = version
        /\ \A v \in Versions : invoices'[v] # invoices[v] => v = version
<1>1. ASSUME IInv, [Next]_vars
      PROVE  [A]_vars
  <2> SUFFICES ASSUME status' = "customer_confirmed", status # "customer_confirmed"
               PROVE  A
    OBVIOUS
  <2>1. TypeOK /\ TokenIdentifiesVersion
    BY <1>1 DEF IInv
  <2>2. PICK c \in Customers : AcceptQuote(c)
    BY <1>1 DEF Next, RepNext, ApproverNext, FinanceNext, CustomerNext, OwnerNext,
       vars, quoteVars, Load, CreateRevision, AcceptUpsell, SubmitWithoutRisk,
       SubmitForApproval, SendToCustomer, NewVersion, MoveTo, ReadApproval,
       ReadLockVersion, ApproveQuotation, RejectQuotation, ReturnForRevision,
       EscalateToFinance, CommitDecision, ApprovalFails, BeginCustomerNegotiation,
       FindInstance, FindQuote, FindCurrentVersion, FindPriorStep, DecideApproval,
       FinanceDecisions, FinanceFails, ResolveCase, CrashBeforeResolve, RejectQuote,
       SubmitCounter, SubmitStructuredNegotiation, ReviseCase, ForwardToFinance
  <2>3. c \in Browsers /\ seen[c].lock = lock
    BY <2>2 DEF AcceptQuote, HasCurrentToken, Browsers
  <2>4. c \in resolving' /\ version' = version /\ seen[c].version = version
    BY <2>1, <2>2, <2>3 DEF AcceptQuote, TokenIdentifiesVersion
  <2>5. \A v \in Versions : invoices'[v] # invoices[v] => v = version
    BY <2>1, <2>2 DEF AcceptQuote, TypeOK
  <2> QED
    BY <2>4, <2>5
<1> QED
  BY <1>1, Invariant, PTL DEF Spec, AcceptsSeenTerms

\* A decision at Finance's endpoint commits on a pending Finance step of the
\* current version, after an approved step, of a quotation waiting for Finance.
THEOREM FinanceDecidesWhatItRead == Spec => FinanceDecisionSound
<1> DEFINE A == \A f \in Financiers :
        LET v == deciding[f].version
            i == deciding[f].step
        IN (deciding'[f] # deciding[f] /\ steps' # steps) =>
             /\ status = "pending_finance_approval"
             /\ v = version
             /\ steps[v][i] = FinanceStep
             /\ PriorApproved(v, i)
<1>1. ASSUME IInv, [Next]_vars
      PROVE  [A]_vars
  <2> SUFFICES ASSUME NEW f \in Financiers,
                      deciding'[f] # deciding[f], steps' # steps
               PROVE  /\ status = "pending_finance_approval"
                      /\ deciding[f].version = version
                      /\ steps[deciding[f].version][deciding[f].step] = FinanceStep
                      /\ PriorApproved(deciding[f].version, deciding[f].step)
    OBVIOUS
  <2> DEFINE v == deciding[f].version
             i == deciding[f].step
  <2>1. TypeOK /\ SessionsNameSteps /\ FinanceReadsStand
    BY <1>1 DEF IInv
  <2>2. PICK d \in FinanceDecisions : DecideApproval(f, d)
    <3>1. FinanceNext
      BY <1>1 DEF Next, RepNext, ApproverNext, CustomerNext, OwnerNext, vars,
         sessionVars, Load, CreateRevision, AcceptUpsell, SubmitWithoutRisk,
         SubmitForApproval, SendToCustomer, ReadApproval, ReadLockVersion,
         ApproveQuotation, RejectQuotation, ReturnForRevision, EscalateToFinance,
         CommitDecision, ApprovalFails, BeginCustomerNegotiation, AcceptQuote,
         ResolveCase, CrashBeforeResolve, RejectQuote, SubmitCounter,
         SubmitStructuredNegotiation, ReviseCase, ForwardToFinance
    <3>2. PICK g \in Financiers : \E d \in FinanceDecisions : DecideApproval(g, d)
      BY <3>1 DEF FinanceNext, FindInstance, FindQuote, FindCurrentVersion,
         FindPriorStep, FinanceFails
    <3>3. g # f => deciding'[f] = deciding[f]
      BY <2>1, <3>2 DEF DecideApproval, TypeOK
    <3> QED
      BY <3>2, <3>3
  <2>3. /\ deciding[f].pc = "checked" /\ deciding[f].lock = lock
        /\ IsPending(v, i)
    BY <2>2 DEF DecideApproval
  <2>4. /\ v = version
        /\ status = "pending_finance_approval"
        /\ PriorApproved(v, i)
    BY <2>1, <2>3 DEF FinanceReadsStand
  <2>5. /\ v \in Versions /\ i \in DOMAIN steps[v]
        /\ steps[v][i].role = "finance_operations"
    BY <2>1, <2>3 DEF SessionsNameSteps
  <2>6. steps[v][i] \in Step /\ steps[v][i].status = "pending"
    BY <2>1, <2>3, <2>5 DEF TypeOK, IsPending
  <2>7. steps[v][i] = FinanceStep
    BY <2>5, <2>6 DEF Step, FinanceStep
  <2> QED
    BY <2>4, <2>7
<1> QED
  BY <1>1, Invariant, PTL DEF Spec, FinanceDecisionSound

\* A case a manager or Finance owns never falls back to the sales
\* representative while it is open.
THEOREM HandoffIsKept == Spec => HandoffSticks
<1>1. ASSUME TypeOK, [Next]_vars, negCase.status = "open", negCase'.status = "open",
             negCase.owner # "sales_rep"
      PROVE  negCase'.owner # "sales_rep"
  <2>1. CASE negCase' = negCase
    BY <1>1, <2>1
  <2>2. CASE \/ negCase' = Resolved(negCase)
             \/ negCase' = [status |-> "open", owner |-> "sales_manager"]
             \/ negCase' = [status |-> "open", owner |-> "finance_operations"]
    BY <1>1, <2>2 DEF Resolved, TypeOK, NegCase
  <2>3. ASSUME NEW c \in Customers, NEW o \in {"sales_rep", "sales_manager"},
               SubmitStructuredNegotiation(c, o)
        PROVE  negCase'.owner # "sales_rep"
    <3>1. negCase' = [status |-> "open", owner |-> negCase.owner]
      BY <1>1, <2>3 DEF SubmitStructuredNegotiation
    <3> QED
      BY <1>1, <3>1
  <2>4. ASSUME NEW c \in Customers, AcceptQuote(c) \/ ResolveCase(c)
               \/ CrashBeforeResolve(c) \/ RejectQuote(c) \/ SubmitCounter(c)
        PROVE  negCase' = negCase \/ negCase' = Resolved(negCase)
    BY <2>4 DEF AcceptQuote, ResolveCase, CrashBeforeResolve, RejectQuote,
       SubmitCounter
  <2>5. ASSUME RepNext \/ ApproverNext \/ FinanceNext
        PROVE  \/ negCase' = negCase
               \/ negCase' = [status |-> "open", owner |-> "sales_manager"]
    BY <2>5 DEF RepNext, ApproverNext, FinanceNext, CreateRevision, AcceptUpsell,
       SubmitWithoutRisk, SubmitForApproval, SendToCustomer, ReadApproval,
       ReadLockVersion, ApproveQuotation, RejectQuotation, ReturnForRevision,
       EscalateToFinance, CommitDecision, ApprovalFails, BeginCustomerNegotiation,
       FindInstance, FindQuote, FindCurrentVersion, FindPriorStep, DecideApproval,
       FinanceFails
  <2>6. ASSUME OwnerNext \/ (\E b \in Browsers : Load(b)) \/ UNCHANGED vars
        PROVE  \/ negCase' = negCase
               \/ negCase' = [status |-> "open", owner |-> "finance_operations"]
    BY <2>6 DEF OwnerNext, ReviseCase, ForwardToFinance, Load, vars
  <2> QED
    BY <1>1, <2>1, <2>2, <2>3, <2>4, <2>5, <2>6 DEF Next, CustomerNext
<1> QED
  BY <1>1, TypeCorrect, PTL DEF Spec, HandoffSticks

-----------------------------------------------------------------------------
(***************************************************************************)
(* The promise of Offer: each step of the requests is a step of the offer  *)
(* or leaves it as it is.                                                  *)
(***************************************************************************)

\* A step that keeps status, version, pages and invoices keeps the offer.
LEMMA PromiseStutters ==
  ASSUME UNCHANGED <<status, version, seen, invoices>>
  PROVE  UNCHANGED Promise!offerVars
BY DEF Promise!offerVars, Phase, Acceptable

\* A status that is neither draft nor confirmed is one the offer may go on to.
LEMMA PromiseProceeds ==
  ASSUME UNCHANGED <<version, seen, invoices>>,
         status' \notin {"draft", "customer_confirmed"}
  PROVE  Promise!Proceed
BY DEF Promise!Proceed, Promise!Phases, Phase, Acceptable

\* A new version, in preparation or sent at once, is the offer's next terms.
LEMMA PromiseRevises ==
  ASSUME NEW r, NEW s \in {"draft", "sent_to_customer"}, NewVersion(r, s),
         UNCHANGED <<seen, invoices>>
  PROVE  Promise!Revise
BY DEF NewVersion, MoveTo, Promise!Revise, Phase, Acceptable

\* Loading shows a customer the current terms, and nobody else anything.
LEMMA PromiseShows ==
  ASSUME TypeOK, NEW b \in Browsers, Load(b)
  PROVE  (\E c \in Customers : Promise!Show(c)) \/ UNCHANGED Promise!offerVars
<1>1. UNCHANGED <<status, version, invoices>> /\ UNCHANGED Phase
  BY DEF Load, quoteVars, Phase, Acceptable
<1>2. CASE b \in Customers
  <2>1. Phase # "drafted"
    BY <1>2 DEF Load, Phase, HiddenFromCustomer, Acceptable
  <2>2. [c \in Customers |-> seen'[c].version]
          = [[c \in Customers |-> seen[c].version] EXCEPT ![b] = version]
    BY <1>2 DEF Load, TypeOK, Browsers
  <2>3. Promise!Show(b)
    BY <1>1, <2>1, <2>2 DEF Promise!Show
  <2> QED
    BY <1>2, <2>3
<1>3. CASE b \notin Customers
  <2>1. [c \in Customers |-> seen'[c].version] = [c \in Customers |-> seen[c].version]
    BY <1>3 DEF Load, TypeOK, Browsers
  <2> QED
    BY <1>1, <2>1 DEF Promise!offerVars
<1> QED
  BY <1>2, <1>3

\* An acceptance is an agreement by a customer who was shown the terms: this
\* is where a token has to identify a version.
LEMMA PromiseAgrees ==
  ASSUME TypeOK, TokenIdentifiesVersion, NEW c \in Customers, AcceptQuote(c)
  PROVE  Promise!Agree(c)
<1>1. seen[c].version = version
  BY DEF AcceptQuote, HasCurrentToken, TokenIdentifiesVersion, Browsers
<1>2. Phase = "offered" /\ Phase' = "agreed"
  BY DEF AcceptQuote, MoveTo, Phase, Acceptable
<1> QED
  BY <1>1, <1>2 DEF AcceptQuote, Promise!Agree

\* Every step of the life cycle is a step of the offer, or none.
LEMMA PromiseStep ==
  ASSUME TypeOK, TokenIdentifiesVersion, [Next]_vars
  PROVE  [Promise!Next]_(Promise!offerVars)
<1> USE DEF sessionVars
<1>1. CASE UNCHANGED vars
  BY <1>1, PromiseStutters DEF vars
<1>2. ASSUME NEW b \in Browsers, Load(b)
      PROVE  [Promise!Next]_(Promise!offerVars)
  BY <1>2, PromiseShows DEF Promise!Next
<1>3. CASE RepNext
  <2>1. ASSUME NEW b \in Staff, NEW r \in Routes, CreateRevision(b, r)
        PROVE  Promise!Revise
    BY <2>1, PromiseRevises DEF CreateRevision
  <2>2. ASSUME NEW r \in Routes, AcceptUpsell(r)
        PROVE  Promise!Revise
    BY <2>2, PromiseRevises DEF AcceptUpsell
  <2>3. CASE SubmitWithoutRisk \/ SubmitForApproval \/ SendToCustomer
    BY <2>3, PromiseProceeds
       DEF SubmitWithoutRisk, SubmitForApproval, SendToCustomer, MoveTo, Promise!Next
  <2> QED
    BY <1>3, <2>1, <2>2, <2>3 DEF RepNext, Promise!Next
<1>4. CASE ApproverNext
  <2>1. ASSUME NEW a \in Approvers,
               \/ \E v \in Versions : \E i \in DOMAIN steps[v] : ReadApproval(a, v, i)
               \/ ReadLockVersion(a)
               \/ ApprovalFails(a)
        PROVE  UNCHANGED Promise!offerVars
    BY <2>1, PromiseStutters DEF ReadApproval, ReadLockVersion, ApprovalFails, quoteVars
  <2>2. ASSUME NEW a \in Approvers,
               ApproveQuotation(a) \/ RejectQuotation(a) \/ ReturnForRevision(a)
                 \/ EscalateToFinance(a)
        PROVE  Promise!Proceed
    BY <2>2, PromiseProceeds
       DEF ApproveQuotation, RejectQuotation, ReturnForRevision, EscalateToFinance,
           CommitDecision, MoveTo
  <2>3. ASSUME NEW v \in Versions, NEW i \in DOMAIN steps[v],
               BeginCustomerNegotiation(v, i)
        PROVE  Promise!Proceed
    BY <2>3, PromiseProceeds DEF BeginCustomerNegotiation, MoveTo
  <2> QED
    BY <1>4, <2>1, <2>2, <2>3 DEF ApproverNext, Promise!Next
<1>5. CASE FinanceNext
  <2>1. ASSUME NEW f \in Financiers, NEW d \in FinanceDecisions, DecideApproval(f, d)
        PROVE  Promise!Proceed
    BY <2>1, PromiseProceeds DEF DecideApproval, FinanceDecisions, MoveTo
  <2>2. ASSUME NEW f \in Financiers,
               \/ \E v \in Versions : \E i \in DOMAIN steps[v] : FindInstance(f, v, i)
               \/ FindQuote(f) \/ FindCurrentVersion(f)
               \/ FindPriorStep(f) \/ FinanceFails(f)
        PROVE  UNCHANGED Promise!offerVars
    BY <2>2, PromiseStutters
       DEF FindInstance, FindQuote, FindCurrentVersion, FindPriorStep, FinanceFails,
           quoteVars
  <2> QED
    BY <1>5, <2>1, <2>2 DEF FinanceNext, Promise!Next
<1>6. ASSUME NEW c \in Customers, AcceptQuote(c)
      PROVE  [Promise!Next]_(Promise!offerVars)
  BY <1>6, PromiseAgrees DEF Promise!Next
<1>7. ASSUME NEW c \in Customers, ResolveCase(c) \/ CrashBeforeResolve(c)
      PROVE  [Promise!Next]_(Promise!offerVars)
  BY <1>7, PromiseStutters DEF ResolveCase, CrashBeforeResolve, quoteVars
<1>8. ASSUME NEW c \in Customers,
             \/ RejectQuote(c) \/ SubmitCounter(c)
             \/ \E o \in {"sales_rep", "sales_manager"} :
                  SubmitStructuredNegotiation(c, o)
      PROVE  [Promise!Next]_(Promise!offerVars)
  BY <1>8, PromiseProceeds
     DEF RejectQuote, SubmitCounter, SubmitStructuredNegotiation, MoveTo, Promise!Next
<1>9. CASE OwnerNext
  <2>1. ASSUME NEW b \in Staff, NEW r \in Routes, ReviseCase(b, r)
        PROVE  Promise!Revise
    BY <2>1, PromiseRevises DEF ReviseCase
  <2>2. CASE ForwardToFinance
    BY <2>2, PromiseStutters DEF ForwardToFinance, quoteVars
  <2> QED
    BY <1>9, <2>1, <2>2 DEF OwnerNext, Promise!Next
<1> QED
  BY <1>1, <1>2, <1>3, <1>4, <1>5, <1>6, <1>7, <1>8, <1>9 DEF Next, CustomerNext

\* The life cycle begins where the offer does.
LEMMA PromiseInit ==
  ASSUME Init
  PROVE  Promise!Init
<1>1. Phase = "drafted"
  BY DEF Init, Phase, Acceptable
<1>2. [c \in Customers |-> seen[c].version] = [c \in Customers |-> 0]
  BY DEF Init, NoToken, Browsers
<1> QED
  BY <1>1, <1>2 DEF Init, Promise!Init, Versions

\* The system of requests, tokens and approvals implements Offer.
THEOREM PromiseKept == Spec => KeepsPromise
<1>1. IInv /\ [Next]_vars => [Promise!Next]_(Promise!offerVars)
  BY PromiseStep DEF IInv
<1> QED
  BY <1>1, PromiseInit, Invariant, PTL DEF Spec, KeepsPromise, Promise!Spec

=============================================================================
