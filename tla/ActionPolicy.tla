---------------------------- MODULE ActionPolicy ----------------------------
(***************************************************************************)
(* What a deployment lets a Bot do: evaluateActionPolicy of                *)
(* server/src/computer/policy.ts.  A rule is a CEL expression; all that    *)
(* decides is what evaluating it gives in a context, so a rule is the      *)
(* function from contexts to outcomes.  The wording of a reason is left    *)
(* out.                                                                    *)
(***************************************************************************)
EXTENDS Naturals, Sequences

CONSTANT Contexts     \* the PolicyContexts a rule can tell apart

\* true, a value other than true, or an exception.
Outcomes == {"true", "other", "broken"}
Expression == [Contexts -> Outcomes]

Modes == {"enforce", "dry-run"}
ActionPolicies == [mode : Modes, deny : Seq(Expression), allow : Seq(Expression)]

matches(expression, context, onError) ==
    \/ expression[context] = "true"
    \/ expression[context] = "broken" /\ onError

Hits(list, context, onError) == {i \in DOMAIN list : matches(list[i], context, onError)}
First(hits) == CHOOSE i \in hits : \A j \in hits : i <= j

\* matched is the rule's place in its list, 0 when nothing matched.
Decision(policy, source, matched) ==
    [allowed |-> source = "allow",
     mode    |-> policy.mode,
     matched |-> matched,
     source  |-> source,
     forward |-> source = "allow" \/ policy.mode = "dry-run"]

\* Mutant: no allow list is read as nothing to check.
evaluateEmptyAllows(policy, context) ==
    LET denied  == Hits(policy.deny, context, TRUE)
        allowed == Hits(policy.allow, context, FALSE)
    IN  IF denied # {} THEN Decision(policy, "deny", First(denied))
        ELSE IF policy.allow = <<>> THEN Decision(policy, "allow", 0)
        ELSE IF allowed # {} THEN Decision(policy, "allow", First(allowed))
        ELSE Decision(policy, "default", 0)

evaluateActionPolicy(policy, context) ==
    LET denied  == Hits(policy.deny, context, TRUE)
        allowed == Hits(policy.allow, context, FALSE)
    IN  IF denied # {} THEN Decision(policy, "deny", First(denied))
        ELSE IF allowed # {} THEN Decision(policy, "allow", First(allowed))
        ELSE Decision(policy, "default", 0)

-----------------------------------------------------------------------------
(* What the lists promise, said without their order.                       *)

Rules(list) == {list[i] : i \in DOMAIN list}

Permits(policy, context) == evaluateActionPolicy(policy, context).allowed

\* q forbids at least what p forbids and grants at most what p grants.
Tighter(q, p) == Rules(p.deny) \subseteq Rules(q.deny)
              /\ Rules(q.allow) \subseteq Rules(p.allow)

\* The same rules, some of which now throw.
Breaks(q, p) ==
    /\ DOMAIN q.deny = DOMAIN p.deny /\ DOMAIN q.allow = DOMAIN p.allow
    /\ \A context \in Contexts :
         /\ \A i \in DOMAIN p.deny : q.deny[i][context] \in {p.deny[i][context], "broken"}
         /\ \A i \in DOMAIN p.allow : q.allow[i][context] \in {p.allow[i][context], "broken"}
=============================================================================
