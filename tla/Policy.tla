------------------------------- MODULE Policy -------------------------------
(***************************************************************************)
(* The executionPolicy of a node: how it is parsed (compiler/policy), how  *)
(* the workflow's, a group's and the node's own are laid over one another  *)
(* (n8n/adapter/policy), and the failure chain the compiler resolves from  *)
(* the result (compiler/failure-chain).                                    *)
(*                                                                         *)
(* An optional value is a set of at most one element.  A number that is    *)
(* not the integer the code wants is a negative one here, a policy that is *)
(* absent is the same as one without fields, and what the code words as a  *)
(* problem is a member of a set: non-empty is a PolicyError.               *)
(***************************************************************************)
EXTENDS Integers, Sequences

SchemaVersion == 1
FailureActions == {"retry", "route", "stop", "continue"}
Terminal(action) == action # "retry"

\* The keys a policy has, and those a failure chain and its deadline are.
PolicyKeys == {"timeoutMs", "onFailure", "concurrency", "rate",
               "maxRuns", "maxToolCalls", "maxRounds"}
ChainKeys == {"onFailure", "timeoutMs"}
NoPolicy == [key \in PolicyKeys |-> {}]

\* Y ?? Z, over optional values.
Else(y, z) == IF y # {} THEN y ELSE z
The(y) == CHOOSE v \in y : TRUE
Field(y, name) == UNION {v[name] : v \in y}

PositiveInt(y) == \A n \in y : n > 0
NonNegativeInt(y) == \A n \in y : n >= 0
Group(y) == \A g \in y : g # ""

-----------------------------------------------------------------------------
(***************************************************************************)
(* The chain as declared.  An output is [index |-> n] or [name |-> s].     *)
(***************************************************************************)
OutputIsIndex(o) == "index" \in DOMAIN o

StepProblems(step) ==
  IF step.action \notin FailureActions THEN {"action"}
  ELSE {p \in {"waitMs"} : ~NonNegativeInt(step.waitMs)} \cup
       IF step.action = "route"
         THEN {p \in {"output"} : \/ step.output = {}
                                  \/ \E o \in step.output : OutputIsIndex(o) /\ o.index < 0}
         ELSE {p \in {"output"} : step.output # {}}

\* waitMs is kept on a retry only.
ParsedStep(step) ==
  IF step.action = "retry" THEN [step EXCEPT !.output = {}] ELSE [step EXCEPT !.waitMs = {}]

\* Through the first terminal step: what follows it can never be reached.
FirstTerminal(steps) ==
  {i \in DOMAIN steps : Terminal(steps[i].action)
                        /\ \A j \in 1 .. (i - 1) : ~Terminal(steps[j].action)}

ChainProblems(steps) ==
  {p \in {"empty"} : steps = <<>>}
  \cup UNION {StepProblems(steps[i]) : i \in DOMAIN steps}
  \cup {p \in {"endless"} : FirstTerminal(steps) = {}}

ParsedChain(steps) ==
  [i \in 1 .. The(FirstTerminal(steps)) |-> ParsedStep(steps[i])]

\* concurrency: {group, limit}; rate: {group, perMs, burst}.
AdmissionProblems(y, counts) ==
  UNION {{p \in counts : v[p] = {} \/ ~PositiveInt(v[p])} \cup {p \in {"group"} : ~Group(v.group)}
         : v \in y}

PolicyProblems(raw) ==
  UNION {{key \in {k} : ~PositiveInt(raw[k])}
         : k \in {"timeoutMs", "maxRuns", "maxToolCalls", "maxRounds"}}
  \cup UNION {ChainProblems(steps) : steps \in raw.onFailure}
  \cup AdmissionProblems(raw.concurrency, {"limit"})
  \cup AdmissionProblems(raw.rate, {"perMs", "burst"})

\* Another version is ignored whatever it says; a known one is read or refused.
Read(y) == {raw \in y : raw.v = SchemaVersion}
ParseProblems(y) == UNION {PolicyProblems(raw) : raw \in Read(y)}
Parse(y) ==
  IF Read(y) = {} THEN NoPolicy
  ELSE LET raw == The(y)
       IN  [key \in PolicyKeys |->
              IF key = "onFailure" THEN {ParsedChain(steps) : steps \in raw.onFailure} ELSE raw[key]]

-----------------------------------------------------------------------------
(***************************************************************************)
(* The layers: the workflow's settings without a chain, the group a node   *)
(* names, the node's own; a later layer's fields win.                      *)
(***************************************************************************)
Over(below, above) == [key \in PolicyKeys |-> Else(above[key], below[key])]

Inheritable(policy) == [key \in PolicyKeys |-> IF key \in ChainKeys THEN {} ELSE policy[key]]

GroupNamed(own) == Else(Field(own.concurrency, "group"), Field(own.rate, "group"))

\* settings = [policy, groups]; a group's entry is read as one of this version.
GroupLayer(settings, own) ==
  LET entry == {settings.groups[g] : g \in GroupNamed(own) \cap DOMAIN settings.groups}
  IN  [problems |-> ParseProblems(entry), policy |-> Parse(entry)]

ResolveProblems(declared, settings) ==
  LET own == ParseProblems(declared)
  IN  IF own # {} THEN own ELSE GroupLayer(settings, Parse(declared)).problems

Resolved(declared, settings) ==
  LET own == Parse(declared)
      workflow == Inheritable(Parse(settings.policy))
  IN  Over(Over(workflow, GroupLayer(settings, own).policy), own)

-----------------------------------------------------------------------------
(***************************************************************************)
(* The failure chain of one node: node = [onError, retryOnFail, outputs,   *)
(* errorOutput, names, connected], outputs counting the error output.      *)
(***************************************************************************)
FieldConflicts(node) ==
  {p \in {"retryOnFail"} : node.retryOnFail}
  \cup {p \in {"onError"} : node.onError \notin {"stopWorkflow", "continueErrorOutput"}}

\* 'error' is the error output before it is a name of the node type.
OutputIndexOf(node, o) ==
  IF OutputIsIndex(o) THEN {o.index}
  ELSE IF o.name = "error" /\ node.errorOutput # {} THEN node.errorOutput
  ELSE {i - 1 : i \in {j \in DOMAIN node.names :
                         node.names[j] = o.name /\ \A k \in 1 .. (j - 1) : node.names[k] # o.name}}

RouteTarget(node, step) ==
  {i \in OutputIndexOf(node, The(step.output)) : i < node.outputs /\ i \in node.connected}

\* A resolved step, or none where a route has no target.
ResolveStep(node, steps, i) ==
  LET step == steps[i]
  IN  CASE step.action = "retry" ->
             {[attempt |-> i, action |-> "retry", waitMs |-> The(Else(step.waitMs, {0})), next |-> i + 1]}
        [] step.action = "route" ->
             {[attempt |-> i, action |-> "route", output |-> t] : t \in RouteTarget(node, step)}
        [] OTHER -> {[attempt |-> i, action |-> step.action]}

ChainRefused(node, policy) ==
  IF policy.onFailure = {} THEN policy.timeoutMs # {}
  ELSE LET steps == The(policy.onFailure)
       IN  \/ FieldConflicts(node) # {}
           \/ \E i \in DOMAIN steps : ResolveStep(node, steps, i) = {}
           \/ steps = <<>> \/ ~Terminal(steps[Len(steps)].action)

FailureChain(node, policy) ==
  IF policy.onFailure = {} THEN {}
  ELSE LET steps == The(policy.onFailure)
       IN  {[steps |-> [i \in DOMAIN steps |-> The(ResolveStep(node, steps, i))],
             timeoutMs |-> policy.timeoutMs]}

-----------------------------------------------------------------------------
\* n8n's own retry parameters, clamped as n8n does: 0 and absent are the default.
Clamp(low, n, high) == IF n < low THEN low ELSE IF n > high THEN high ELSE n
OrDefault(y, n) == IF y \in {{}, {0}} THEN n ELSE The(y)
MaxTries(y) == Clamp(2, OrDefault(y, 3), 5)
WaitBetweenTries(y) == Clamp(0, OrDefault(y, 1000), 5000)

=============================================================================
