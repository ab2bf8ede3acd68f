---------------------------- MODULE PolicyChecks ----------------------------
(***************************************************************************)
(* What the policy layer promises, over every chain of up to three steps   *)
(* and every layering of a few policies: evaluated by TLC at start-up.     *)
(***************************************************************************)
LOCAL INSTANCE Policy
LOCAL INSTANCE SequencesExt

LOCAL AStep(action, waitMs, output) == [action |-> action, waitMs |-> waitMs, output |-> output]
LOCAL AtIndex(n) == [index |-> n]
LOCAL AtName(s) == [name |-> s]
LOCAL Steps ==
  {AStep("retry", w, {}) : w \in {{}, {-1}, {0}, {7}}}
  \cup {AStep("route", {}, o) : o \in {{}, {AtIndex(-1)}, {AtIndex(0)}, {AtIndex(1)}, {AtIndex(2)},
                                       {AtName("error")}, {AtName("main")}}}
  \cup {AStep("stop", {3}, {}), AStep("stop", {}, {AtIndex(0)}), AStep("skip", {}, {})}
LOCAL Chains == {<<>>} \cup UNION {[1 .. n -> Steps] : n \in 1 .. 3}
LOCAL Raw(timeoutMs, chain, group) ==
  [[key \in PolicyKeys |-> {}] EXCEPT
     !.timeoutMs = timeoutMs, !.onFailure = chain,
     !.concurrency = {[limit |-> {2}, group |-> g] : g \in group}]
LOCAL Versioned(v, p) == [key \in PolicyKeys \cup {"v"} |-> IF key = "v" THEN v ELSE p[key]]

\* A node whose second output is its error output, wired or not.
LOCAL ANode(onError, connected) ==
  [onError |-> onError, retryOnFail |-> FALSE, connected |-> connected, names |-> <<"main">>,
   outputs |-> IF onError = "continueErrorOutput" THEN 2 ELSE 1,
   errorOutput |-> IF onError = "continueErrorOutput" THEN {1} ELSE {}]
LOCAL NodesTried ==
  {ANode(e, c) : e \in {"stopWorkflow", "continueErrorOutput", "continueRegularOutput"}, c \in SUBSET {0, 1}}

\* A chain that is accepted says what every attempt's failure does: every attempt but
\* the last is retried as the next one, and only the last ends the activation.
ASSUME EveryAttemptHasAnAnswer ==
  \A steps \in Chains : \A node \in NodesTried :
    LET p == Versioned(SchemaVersion, Raw({5}, {steps}, {}))
        chain == FailureChain(node, Parse({p}))
    IN  (ParseProblems({p}) = {} /\ ~ChainRefused(node, Parse({p}))) =>
          \A c \in chain : \A i \in DOMAIN c.steps :
            /\ c.steps[i].attempt = i
            /\ IF i < Len(c.steps) THEN c.steps[i].action = "retry" /\ c.steps[i].next = i + 1
                                   ELSE Terminal(c.steps[i].action)
            /\ c.steps[i].action = "route" => c.steps[i].output \in node.connected

\* What is refused is refused for one of the reasons the messages give, and nothing
\* else is: a reader who fixes each of them has a chain that compiles.
ASSUME RefusedForAReason ==
  \A steps \in Chains :
    ChainProblems(steps) = {} <=>
      /\ \E i \in DOMAIN steps : steps[i].action \in FailureActions \ {"retry"}
      /\ \A i \in DOMAIN steps :
           /\ steps[i].action \in FailureActions
           /\ \A w \in steps[i].waitMs : w >= 0
           /\ IF steps[i].action = "route"
                THEN \E o \in steps[i].output : "index" \in DOMAIN o => o.index >= 0
                ELSE steps[i].output = {}

(***************************************************************************)
(* A chain and its deadline govern the node that declares them or names    *)
(* the group that does: workflow settings never give a node one, whatever  *)
(* the layers, and a node's own field always wins.                         *)
(***************************************************************************)
LOCAL Stop == <<AStep("stop", {}, {})>>
LOCAL Layers ==
  {{}} \cup {{Versioned(v, Raw(t, c, g))} : v \in {1, 2}, t \in {{}, {1}, {2}}, c \in {{}, {Stop}}, g \in {{}, {{}}, {{"g"}}}}
ASSUME LayersKeepTheirPlace ==
  \A own, group, workflow \in Layers :
    LET settings == [policy |-> workflow, groups |-> [g \in {"g"} |-> Versioned(SchemaVersion, The(Else(group, {Versioned(1, NoPolicy)})))]]
        resolved == Resolved(own, settings)
        named == GroupNamed(Parse(own)) # {}
    IN  /\ \A key \in PolicyKeys : Parse(own)[key] # {} => resolved[key] = Parse(own)[key]
        /\ \A key \in ChainKeys :
             resolved[key] # {} => Parse(own)[key] # {} \/ (named /\ settings.groups["g"][key] # {})
        /\ "concurrency" \in {key \in PolicyKeys : Parse(workflow)[key] # {}} => resolved.concurrency # {}

\* A deadline without a chain is refused wherever the two came from.
ASSUME DeadlineNeedsAChain ==
  \A own \in Layers : \A node \in NodesTried :
    LET p == Parse(own) IN p.timeoutMs # {} /\ p.onFailure = {} => ChainRefused(node, p)

\* n8n's own retries: between two and five tries, absent and zero both meaning three.
ASSUME RetriesAreClamped ==
  \A y \in {{}} \cup {{n} : n \in -1 .. 7} :
    /\ MaxTries(y) \in 2 .. 5
    /\ y \in {{}, {0}} => MaxTries(y) = 3 /\ WaitBetweenTries(y) = 1000
    /\ \A n \in y \ {0} : n \in 2 .. 5 => MaxTries(y) = n

=============================================================================
