----------------------------- MODULE MCServices -----------------------------
(***************************************************************************)
(* The long-running parts of nxr of which something must eventually        *)
(* happen: in the daemon the log broker and the owner of session runs, the *)
(* loop of nxr watch and the preparation of its generations, and the run   *)
(* of an execution spec.  They share no variable, so a behaviour of all of *)
(* them together is an interleaving of one behaviour of each, and it is    *)
(* enough to run one at a time: `service` says which.                      *)
(* The fair actions of a service that does not run are disabled.           *)
(***************************************************************************)
EXTENDS LogBroker, Watch, SessionOwner, SpecRun, NodePreparer

VARIABLE service

service_vars == <<service, log_vars, watch_vars, vars, sr_vars, np_vars>>

(* A checkout with two sources and a Nix file in directories of their own  *)
(* and the rest in the watch root.                                         *)
MCDirOf == [f \in WatchFiles |-> CASE f \in {"s1", "s2"} -> "src"
                                  [] f = "a.nix" -> "nix"
                                  [] OTHER -> "."]
MCNodeRoots == [n \in PlanNodes |-> IF n = "build" THEN {"s1"} ELSE {"s1", "s2"}]
MCNodeInput == [n \in PlanNodes |-> IF n = "build" THEN "s1" ELSE "s2"]

(* Two runs of one cpu each, which the budget admits together.             *)
TwoEqual == <<1, 1>>

(* A leaf that writes two chunks, one more than a pipe holds.              *)
MCSpecOutput == <<"t", "u">>

(* Two nodes in a chain and one beside them.  What they declare: nothing,  *)
(* a shell that the flake has or has not, outputs, a context with a shell  *)
(* and an environment, with secrets, with a confirmation.                  *)
MCPrepDependsOn == <<{}, {1}, {}>>

MCContexts ==
    [env     |-> [policy |-> "env", shell |-> "dev", secrets |-> FALSE, confirm |-> FALSE],
     secret  |-> [policy |-> "base", shell |-> "none", secrets |-> TRUE, confirm |-> FALSE],
     confirm |-> [policy |-> "base", shell |-> "none", secrets |-> FALSE, confirm |-> TRUE]]

Declares(context, shell, outputs) ==
    [context |-> context, shell |-> shell, outputs |-> outputs, binds |-> {}, parameters |-> outputs]

MCDefinitions ==
    LET plain == Declares("no", "none", FALSE)
        dev == Declares("no", "dev", FALSE)
        missing == Declares("no", "gone", FALSE)
        built == Declares("no", "dev", TRUE)
        bound == [built EXCEPT !.binds = {1}]
        env == Declares("env", "none", FALSE)
        secret == Declares("secret", "none", TRUE)
        confirm == Declares("confirm", "dev", FALSE)
    IN  {<<dev, dev, dev>>, <<dev, env, dev>>, <<dev, dev, plain>>, <<env, env, missing>>,
         <<confirm, dev, dev>>, <<built, bound, env>>, <<secret, bound, plain>>, <<dev, dev, secret>>}

MCPrepRequests ==
    {r \in [lazy : BOOLEAN, pipeline : BOOLEAN, keepGoing : BOOLEAN, watch : BOOLEAN,
            prewarm : {TRUE}, trusted : BOOLEAN, set : {TRUE}, shell : {"none"},
            mode : {"smart"}, active : {"none", "dev"}] :
        /\ r.watch => ~ r.lazy /\ ~ r.keepGoing
        /\ ~ r.lazy => ~ r.pipeline}

-----------------------------------------------------------------------------
ServicesInit ==
    /\ service \in {"log", "watch", "owner", "spec", "prepare"}
    /\ LogInit
    /\ IF service = "watch" THEN WatchInit ELSE WatchOff
    /\ Init /\ SpecRunInit
    /\ IF service = "prepare" THEN PrepInit ELSE PrepOff

(* What the others leave alone.                                            *)
OthersUnchanged ==
    /\ IF service = "log" THEN TRUE ELSE UNCHANGED log_vars
    /\ IF service = "watch" THEN TRUE ELSE UNCHANGED watch_vars
    /\ IF service = "owner" THEN TRUE ELSE UNCHANGED vars
    /\ IF service = "spec" THEN TRUE ELSE UNCHANGED sr_vars
    /\ IF service = "prepare" THEN TRUE ELSE UNCHANGED np_vars

ServicesNext ==
    /\ UNCHANGED service
    /\ \/ service = "log" /\ LogNext
       \/ service = "watch" /\ WatchNext
       \/ service = "owner" /\ Next
       \/ service = "spec" /\ SpecRunNext
       \/ service = "prepare" /\ PrepNext
    /\ OthersUnchanged

ServicesSpec ==
    /\ ServicesInit /\ [][ServicesNext]_service_vars
    /\ LogFairness /\ WatchFairness /\ OwnerFairness /\ SpecRunFairness

=============================================================================
