------------------------------ MODULE SpawnEnv ------------------------------
(***************************************************************************)
(* What a task is started with (spawn_node of nxr-cli/src/commands/task.rs,*)
(* nxr-task/src/context.rs and secrets.rs, nxr-core/src/env_policy.rs): the *)
(* policy of the command line is merged with the one of the task's context, *)
(* secrets are authorized, resolved one by one and delivered, and the       *)
(* variables of parameters and matrix are put on top.                       *)
(*                                                                          *)
(* The value of a variable is represented by where it comes from.           *)
(***************************************************************************)
EXTENDS Naturals, Sequences

CONSTANTS
    EnvVars,      \* names of variables
    Allowlisted,  \* those of CLEAN_ENV_ALLOWLIST
    EnvRequests   \* the spawns to look at, of EnvRequestShape

VARIABLES
    se_req,   \* the request
    se_pc,    \* "confirm", "authorize", "resolve", "spawn", "running", "exited", "refused"
    se_next,  \* the slot to be resolved next
    se_over,  \* the overrides so far, by variable
    se_stdin, \* whether a payload for stdin has been resolved
    se_files, \* slots whose temporary file exists
    se_env    \* the environment of the child, by variable

se_vars == <<se_req, se_pc, se_next, se_over, se_stdin, se_files, se_env>>

(* Values from one place, or none.                                         *)
Assignments(label) == [EnvVars -> {"none", label}]
NoAssignment == [v \in EnvVars |-> "none"]

-----------------------------------------------------------------------------
(* A policy: plain inherit, inherit with changes, or clean.                *)
PlainInherit == [mode |-> "plain", keep |-> {}, set |-> NoAssignment, unset |-> {}]
CleanPolicy(keep, set, unset) == [mode |-> "clean", keep |-> keep, set |-> set, unset |-> unset]
inherit_with(keep, set, unset) ==
    IF keep = {} /\ set = NoAssignment /\ unset = {} THEN PlainInherit
    ELSE [mode |-> "inherit", keep |-> keep, set |-> set, unset |-> unset]
EnvPolicies(label) ==
    {PlainInherit} \cup [mode : {"inherit", "clean"}, keep : SUBSET EnvVars,
                        set : Assignments(label), unset : SUBSET EnvVars]

SecretSlots ==
    [name : EnvVars, provider : {"env", "file", "sops", "sops-nix"}, delivery : {"env", "file", "stdin"}]

(* caller: the variables of nxr itself; secrets: the context's slots in    *)
(* order; param, matrix: the variables these set; trust: "off" if the user *)
(* configuration names no project, else whether this project may use the   *)
(* references; piped: output goes through pipes.                           *)
EnvRequestShape ==
    [caller : Assignments("caller"), cli : EnvPolicies("cli"), context : EnvPolicies("context"),
     secrets : Seq(SecretSlots), param : Assignments("param"), matrix : Assignments("matrix"),
     confirm : BOOLEAN, trust : {"off", "missing", "granted"}, piped : BOOLEAN]

ASSUME EnvAssumption == Allowlisted \subseteq EnvVars /\ EnvRequests \subseteq EnvRequestShape

(* The right side wins where both assign a variable (BTreeMap::extend).    *)
merge_spawn_env_overrides(base, over) ==
    [v \in EnvVars |-> IF over[v] # "none" THEN over[v] ELSE base[v]]

(* Fault: the command line overrides the context.                          *)
merge_policy_fields_cli(cli, context) ==
    LET keep == cli.keep \cup context.keep
        set == merge_spawn_env_overrides(context.set, cli.set)
        unset == cli.unset \cup context.unset
    IN  IF cli.mode = "clean" THEN CleanPolicy(keep, set, unset) ELSE inherit_with(keep, set, unset)

merge_policy_fields(cli, context) ==
    LET keep == cli.keep \cup context.keep
        set == merge_spawn_env_overrides(cli.set, context.set)
        unset == cli.unset \cup context.unset
    IN  IF cli.mode = "clean" THEN CleanPolicy(keep, set, unset) ELSE inherit_with(keep, set, unset)

merge_environment_policies(cli, context) ==
    IF context.mode = "plain" THEN cli
    ELSE IF cli.mode = "plain" THEN context
    ELSE IF cli.mode = context.mode THEN merge_policy_fields(cli, context)
    ELSE IF cli.mode = "clean" THEN cli ELSE context

(* The environment after env_clear, env and env_remove of one spawn.       *)
apply_with_overrides(policy, caller, over) ==
    LET kept == [v \in EnvVars |->
                    IF policy.mode # "clean" \/ v \in Allowlisted \cup policy.keep
                    THEN caller[v] ELSE "none"]
        given == merge_spawn_env_overrides(merge_spawn_env_overrides(kept, policy.set), over)
    IN  [v \in EnvVars |-> IF v \in policy.unset THEN "none" ELSE given[v]]

EffectivePolicy == merge_environment_policies(se_req.cli, se_req.context)

-----------------------------------------------------------------------------
SpawnEnvInit ==
    /\ se_req \in EnvRequests /\ se_pc = "confirm" /\ se_next = 1
    /\ se_over = NoAssignment /\ se_stdin = FALSE /\ se_files = {} /\ se_env = NoAssignment

(* An error drops what has been resolved, temporary files included.        *)
Refuse == se_pc' = "refused" /\ se_files' = {} /\ UNCHANGED <<se_req, se_next, se_over, se_stdin, se_env>>

(* A context may ask for confirmation; no terminal or another answer than  *)
(* yes refuses.                                                            *)
enforce_context_confirm ==
    /\ se_pc = "confirm"
    /\ \/ se_pc' = "authorize" /\ UNCHANGED <<se_req, se_next, se_over, se_stdin, se_files, se_env>>
       \/ se_req.confirm /\ Refuse

(* refs_requiring_trust: none if every provider is the environment, else   *)
(* all references.                                                         *)
NeedsTrust == \E i \in DOMAIN se_req.secrets : se_req.secrets[i].provider # "env"

authorize_secret_refs ==
    /\ se_pc = "authorize"
    /\ IF NeedsTrust /\ se_req.trust = "missing" THEN Refuse
       ELSE /\ se_pc' = "resolve" /\ se_over' = EffectivePolicy.set
            /\ UNCHANGED <<se_req, se_next, se_stdin, se_files, se_env>>

(* One slot: its value is found or not.  A file is written unless the      *)
(* value is the path of one; a second payload for stdin is an error.       *)
resolve_context_secrets ==
    /\ se_pc = "resolve" /\ se_next <= Len(se_req.secrets)
    /\ LET slot == se_req.secrets[se_next]
           deliver(value) == se_over' = [se_over EXCEPT ![slot.name] = value]
       IN  \/ Refuse
           \/ slot.delivery = "stdin" /\ se_stdin /\ Refuse
           \/ /\ \/ slot.delivery = "env" /\ deliver("secret") /\ UNCHANGED <<se_stdin, se_files>>
                 \/ slot.delivery = "file" /\ deliver("path") /\ UNCHANGED <<se_stdin, se_files>>
                 \/ /\ slot.delivery = "file" /\ deliver("temp") /\ UNCHANGED se_stdin
                    /\ se_files' = se_files \cup {se_next}
                 \/ /\ slot.delivery = "stdin" /\ ~se_stdin
                    /\ se_stdin' = TRUE /\ UNCHANGED <<se_over, se_files>>
              /\ se_next' = se_next + 1 /\ UNCHANGED <<se_req, se_pc, se_env>>

(* Parameters, then the matrix; a payload for stdin needs a child whose    *)
(* output is not piped.  The spawn itself may fail.                        *)
SpawnNode ==
    /\ se_pc = "resolve" /\ se_next > Len(se_req.secrets)
    /\ IF se_stdin /\ se_req.piped THEN Refuse
       ELSE \/ Refuse
            \/ LET over == merge_spawn_env_overrides(
                               merge_spawn_env_overrides(se_over, se_req.param), se_req.matrix)
               IN  /\ se_env' = apply_with_overrides(EffectivePolicy, se_req.caller, over)
                   /\ se_over' = over /\ se_pc' = "running"
                   /\ UNCHANGED <<se_req, se_next, se_stdin, se_files>>

(* The child is reaped and the guard of its secrets dropped.  One that was *)
(* stopped at its deadline keeps them until the run returns: not here.     *)
ReapNode ==
    /\ se_pc = "running" /\ se_pc' = "exited" /\ se_files' = {}
    /\ UNCHANGED <<se_req, se_next, se_over, se_stdin, se_env>>

SpawnEnvNext ==
    \/ enforce_context_confirm \/ authorize_secret_refs \/ resolve_context_secrets
    \/ SpawnNode \/ ReapNode

SpawnEnvSpec == SpawnEnvInit /\ [][SpawnEnvNext]_se_vars

-----------------------------------------------------------------------------
(* docs/DEV_ENV_INTEGRATION.md, for one variable: a plain side defers to   *)
(* the other, clean beats inherit, and two clean sides accumulate, the     *)
(* context overriding.  unset wins over everything; then come matrix,      *)
(* parameter, secret, set, and what the caller has.                        *)
DocumentedValue(v) ==
    LET cli == se_req.cli
        context == se_req.context
        sides == {s \in {cli, context} : s.mode = IF "clean" \in {cli.mode, context.mode}
                                                  THEN "clean" ELSE "inherit"}
        slots == {i \in DOMAIN se_req.secrets : se_req.secrets[i].name = v
                                                /\ se_req.secrets[i].delivery # "stdin"}
    IN  IF \E s \in sides : v \in s.unset THEN {"none"}
        ELSE IF se_req.matrix[v] # "none" THEN {"matrix"}
        ELSE IF se_req.param[v] # "none" THEN {"param"}
        ELSE IF slots # {} THEN {"secret", "path", "temp"}
        ELSE IF context \in sides /\ context.set[v] # "none" THEN {"context"}
        ELSE IF cli \in sides /\ cli.set[v] # "none" THEN {"cli"}
        ELSE IF sides = {} \/ \E s \in sides : s.mode = "inherit" \/ v \in s.keep \cup Allowlisted
             THEN {se_req.caller[v]} ELSE {"none"}

(* A child gets the environment that the documents promise, whatever the   *)
(* policies, and only after a check of trust; the files of its secrets     *)
(* exist as long as it runs and no longer, and not after an error.         *)
SpawnGoverned ==
    /\ se_pc = "running" =>
        /\ \A v \in EnvVars : se_env[v] \in DocumentedValue(v)
        /\ \A v \in EnvVars : se_env[v] = "temp" => se_files # {}
        /\ NeedsTrust => se_req.trust # "missing"
    /\ se_pc \in {"exited", "refused"} => se_files = {}

=============================================================================
