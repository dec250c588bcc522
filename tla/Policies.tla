------------------------------- MODULE Policies -------------------------------
(***************************************************************************)
(* The approval policy, which two pages replace in two different ways, and *)
(* the assessment of a new version, which reads the policy in force after  *)
(* the customer and the products.                                          *)
(*                                                                         *)
(* READ COMMITTED: a statement sees what is committed when it starts.  A   *)
(* statement that wants a row another transaction has locked waits, and    *)
(* then looks again at that row only: rows inserted meanwhile are not in   *)
(* its snapshot.  What a transaction writes is published when it commits.  *)
(***************************************************************************)
EXTENDS Integers, FiniteSets, Sequences, FiniteSetsExt, Functions

CONSTANTS
  Updaters,       \* requests that replace the approval policy
  Limits,         \* values of manager_max_blended_risk_percent
  MaxPolicies,    \* bound: rows of approval_policies
  Base,           \* line_base_value of each line of the quotation
  Ceiling,        \* discount_ceiling_percent of each line's category
  Entitlements,   \* entitlement_discount_percent of the customer's tiers
  Requested       \* discounts a line may be given

\* Some line has a value: otherwise ZERO_PRE_DISCOUNT_TOTAL.
ASSUME BaseAssumption == Base \in Seq(Nat) /\ \E l \in DOMAIN Base : Base[l] > 0
ASSUME PercentAssumption ==
  /\ Ceiling \in [DOMAIN Base -> Nat]
  /\ Limits \subseteq Nat /\ Entitlements \subseteq Nat /\ Requested \subseteq Nat

VARIABLES
  policies,    \* approval_policies, in the order they were committed
  update,      \* the transaction of each updater
  entitlement, \* what the customer of the version being created is entitled to
  assessment   \* the last version's risk_assessments row, with its lines

policyVars == <<policies, update>>
quoteVars == <<entitlement, assessment>>
stateVars == <<policyVars, quoteVars>>

-----------------------------------------------------------------------------

Lines == DOMAIN Base
Routes == {"none", "manager", "manager_then_finance"}

Policy == [limit : Limits, version : Nat, active : BOOLEAN]
Update == [pc : {"idle", "locking", "inserted"}, via : {"admin", "manager"},
           limit : Limits, seen : SUBSET (1..MaxPolicies),
           held : SUBSET (1..MaxPolicies), version : Nat]

Idle == [pc |-> "idle", via |-> "admin", limit |-> CHOOSE l \in Limits : TRUE,
         seen |-> {}, held |-> {}, version |-> 0]
NotReading == -1
Unassessed == [route |-> "unassessed"]

PolicyInit ==
  /\ \E limit \in Limits :
       policies = <<[limit |-> limit, version |-> 1, active |-> TRUE]>>
  /\ update = [u \in Updaters |-> Idle]
  /\ entitlement = NotReading
  /\ assessment = Unassessed

-----------------------------------------------------------------------------
(***************************************************************************)
(* The approval policy.  An administrator's request locks the newest       *)
(* active row, a manager's every active row.                               *)
(***************************************************************************)

Active == {p \in DOMAIN policies : policies[p].active}

\* ORDER BY policy_version DESC, the rows LIMIT 1 may return first.
Newest(rows) ==
  {p \in rows : \A q \in rows : policies[q].version <= policies[p].version}

InForce == Newest(Active)

LockedByOther(u, p) == \E o \in Updaters \ {u} : p \in update[o].held

\* Both statements start by finding the active rows.
BeginUpdate(u) ==
  /\ update[u].pc = "idle"
  /\ Len(policies) + Cardinality({o \in Updaters : update[o].pc # "idle"}) < MaxPolicies
  /\ \E via \in {"admin", "manager"}, limit \in Limits :
       update' = [update EXCEPT ![u] = [pc |-> "locking", via |-> via, limit |-> limit,
                                        seen |-> Active, held |-> {}, version |-> 0]]
  /\ UNCHANGED <<policies, quoteVars>>

\* The row the statement comes to next: the newest for an administrator, the
\* rows as they are stored for a manager.
NextRow(u) == IF update[u].via = "admin" THEN Newest(update[u].seen)
              ELSE {Min(update[u].seen)}

\* A row that is no longer active once its lock is free is passed over.
LockPolicy(u) ==
  /\ update[u].pc = "locking" /\ update[u].seen # {}
  /\ \E p \in NextRow(u) :
       /\ ~LockedByOther(u, p)
       /\ update' = [update EXCEPT
            ![u].held = IF policies[p].active THEN @ \cup {p} ELSE @,
            ![u].seen = IF policies[p].active /\ update[u].via = "admin" THEN {}
                        ELSE @ \ {p}]
  /\ UNCHANGED <<policies, quoteVars>>

\* An administrator's policy is numbered after the row found, the first of all
\* if none was; a manager's after every row.
NextVersion(u) ==
  IF update[u].via = "admin"
  THEN IF update[u].held = {} THEN 1
       ELSE policies[Max(update[u].held)].version + 1
  ELSE Max({policies[p].version : p \in DOMAIN policies}) + 1

InsertPolicy(u) ==
  /\ update[u].pc = "locking" /\ update[u].seen = {}
  /\ update' = [update EXCEPT ![u].pc = "inserted", ![u].version = NextVersion(u)]
  /\ UNCHANGED <<policies, quoteVars>>

\* Variant (fault model): is_active is cleared on every row, found or not.
CommitPolicyClearingAll(u) ==
  /\ update[u].pc = "inserted"
  /\ policies' =
       Append([p \in DOMAIN policies |-> [policies[p] EXCEPT !.active = FALSE]],
              [limit |-> update[u].limit, version |-> update[u].version, active |-> TRUE])
  /\ update' = [update EXCEPT ![u] = Idle]
  /\ UNCHANGED quoteVars

CommitPolicy(u) ==
  /\ update[u].pc = "inserted"
  /\ policies' =
       Append([p \in DOMAIN policies |->
                 [policies[p] EXCEPT !.active = @ /\ p \notin update[u].held]],
              [limit |-> update[u].limit, version |-> update[u].version, active |-> TRUE])
  /\ update' = [update EXCEPT ![u] = Idle]
  /\ UNCHANGED quoteVars

\* ROLLBACK, or the connection is lost.
UpdateFails(u) ==
  /\ update[u].pc # "idle"
  /\ update' = [update EXCEPT ![u] = Idle]
  /\ UNCHANGED <<policies, quoteVars>>

-----------------------------------------------------------------------------
(***************************************************************************)
(* A version and its assessment.  The customer is read first and the       *)
(* policy last; which tier the customer has is the business of Tiers.      *)
(***************************************************************************)

ResolveCustomer ==
  /\ entitlement = NotReading
  /\ entitlement' \in Entitlements
  /\ UNCHANGED <<policyVars, assessment>>

AllowedDiscount(l) == Min({entitlement, Ceiling[l]})
Overage(requested, allowed) == Max({0, requested - allowed})

\* blended = excess / total, in percent; nothing is rounded before the route.
ExcessOf(asked) ==
  SumFunctionOnSet([l \in Lines |-> Base[l] * Overage(asked[l], AllowedDiscount(l))], Lines)
TotalOf == SumFunctionOnSet(Base, Lines)

\* Variant (fault model): the four places the column keeps decide the route.
RouteOfRounded(excess, total, limit) ==
  LET blended == (10000 * excess + total \div 2) \div total IN
  CASE blended = 0 -> "none"
    [] blended > 0 /\ blended <= 10000 * limit -> "manager"
    [] OTHER -> "manager_then_finance"

RouteOf(excess, total, limit) ==
  CASE excess = 0 -> "none"
    [] excess > 0 /\ excess <= limit * total -> "manager"
    [] OTHER -> "manager_then_finance"

CreateQuoteVersion ==
  /\ entitlement # NotReading
  /\ \E asked \in [Lines -> Requested], p \in InForce :
       assessment' = [route |-> RouteOf(ExcessOf(asked), TotalOf, policies[p].limit),
                      limit |-> policies[p].limit,
                      overage |-> [l \in Lines |-> Overage(asked[l], AllowedDiscount(l))]]
  /\ entitlement' = NotReading
  /\ UNCHANGED policyVars

-----------------------------------------------------------------------------

PolicyNext ==
  \/ \E u \in Updaters :
       BeginUpdate(u) \/ LockPolicy(u) \/ InsertPolicy(u) \/ CommitPolicy(u)
         \/ UpdateFails(u)
  \/ ResolveCustomer \/ CreateQuoteVersion

PolicySpec == PolicyInit /\ [][PolicyNext]_stateVars

-----------------------------------------------------------------------------
(***************************************************************************)
(* Properties.                                                             *)
(***************************************************************************)

PolicyTypeOK ==
  /\ policies \in Seq(Policy) /\ Len(policies) <= MaxPolicies
  /\ update \in [Updaters -> Update]
  /\ entitlement \in Entitlements \cup {NotReading}
  /\ assessment # Unassessed => /\ assessment.route \in Routes
                                /\ assessment.overage \in [Lines -> Nat]

\* However updates of the two pages overlap, a policy is in force at all times
\* (no version is refused for want of one), and it gives way only to one with
\* a higher number: no late commit brings an older policy back.
PolicyNumbersRise ==
  [][InForce' # {} /\ \A p \in InForce, q \in InForce' :
       policies'[q].version >= policies[p].version]_stateVars

\* The route an assessment stores is the one its own lines and policy call
\* for: none exactly when no line of value is over its limit, Finance when all
\* of them are by more than the manager's share, never when none is.
RouteFitsLines ==
  assessment # Unassessed =>
    LET valued == {l \in Lines : Base[l] > 0}
        over(least) == {l \in valued : assessment.overage[l] > least}
    IN /\ assessment.route = "none" <=> over(0) = {}
       /\ over(assessment.limit) = valued => assessment.route = "manager_then_finance"
       /\ over(assessment.limit) = {} => assessment.route # "manager_then_finance"

=============================================================================
