----------------------------- MODULE EvalWorker -----------------------------
(***************************************************************************)
(* The eval-result worker that nxrd keeps (crates/nxr-core/src/            *)
(* eval_worker.rs) and the client that uses it (crates/nxr-nix/src/        *)
(* eval_worker.rs).  Every request carries its whole session; requests of  *)
(* concurrent clients reach the worker one at a time, in any order, under  *)
(* the daemon's lock.                                                      *)
(*                                                                         *)
(* A JSON result is represented by where it came from: the session and the *)
(* attribute it was evaluated for.                                         *)
(***************************************************************************)
EXTENDS Naturals, FiniteSets

CONSTANTS
    EvalIdentities,     \* nix_identity strings
    EvalConfigs,        \* config fingerprints, the absent one included
    EvalRoots,          \* flake roots
    EvalFingerprints,   \* flake fingerprints
    EvalKinds,          \* metadata, tasks, list
    EvalAttrs,          \* attribute paths
    EvalClients,
    NoIdentity,         \* nix_identity before the first prepare
    NoConfig,           \* no config fingerprint
    MAX_EVAL_ENTRIES

ASSUME EvalAssumption ==
    /\ MAX_EVAL_ENTRIES \in Nat \ {0}
    /\ NoIdentity \notin EvalIdentities
    /\ NoConfig \in EvalConfigs

(* EvalPrepareParams                                                       *)
EvalSessions == [nix_identity : EvalIdentities, config_fingerprint : EvalConfigs,
                 flake_root : EvalRoots, flake_fingerprint : EvalFingerprints]

VARIABLES
    eval_nix,      \* nix_identity of EvalWorkerCache
    eval_config,   \* config_fingerprint
    eval_flakes,   \* flake_fingerprints: set of <<root, fingerprint>>
    eval_entries,  \* entries: set of <<key, entry>>
    eval_client    \* where each client is in eval_json_with_worker

eval_vars == <<eval_nix, eval_config, eval_flakes, eval_entries, eval_client>>

EvalIdle == [pc |-> "idle"]

EvalInit ==
    /\ eval_nix = NoIdentity
    /\ eval_config = NoConfig
    /\ eval_flakes = {}
    /\ eval_entries = {}
    /\ eval_client = [c \in EvalClients |-> EvalIdle]

session_matches(p) ==
    /\ eval_nix = p.nix_identity
    /\ eval_config = p.config_fingerprint
    /\ <<p.flake_root, p.flake_fingerprint>> \in eval_flakes

(* What a prepare keeps: everything is dropped when Nix or its config      *)
(* changed, the entries of the root when its fingerprint did.              *)
KeptEntries(p) ==
    IF eval_nix # p.nix_identity \/ eval_config # p.config_fingerprint
    THEN {}
    ELSE {e \in eval_entries :
            \/ e[2].flake_root # p.flake_root
            \/ <<p.flake_root, p.flake_fingerprint>> \in eval_flakes}

KeptFlakes(p) ==
    IF eval_nix # p.nix_identity \/ eval_config # p.config_fingerprint
    THEN {} ELSE {f \in eval_flakes : f[1] # p.flake_root}

prepare(p) ==
    /\ eval_entries' = KeptEntries(p)
    /\ eval_flakes' = KeptFlakes(p) \cup {<<p.flake_root, p.flake_fingerprint>>}
    /\ eval_nix' = p.nix_identity
    /\ eval_config' = p.config_fingerprint

(* Fault: the key is taken to say which flake it is.                       *)
get_eval_any_root(p, kind, key) ==
    {e \in eval_entries : session_matches(p) /\ e[1] = key /\ e[2].kind = kind}

(* The entries a get with this session, kind and key may return.           *)
get_eval(p, kind, key) ==
    {e \in eval_entries : /\ session_matches(p)
                          /\ e[1] = key
                          /\ e[2].kind = kind
                          /\ e[2].flake_root = p.flake_root}

(* Room for the new key: at the cap one other entry goes.  The code takes  *)
(* the first key; which one is left open here.                             *)
Evicted(key) ==
    IF /\ Cardinality(eval_entries) >= MAX_EVAL_ENTRIES
       /\ \A e \in eval_entries : e[1] # key
    THEN {{e} : e \in eval_entries}
    ELSE {{e \in eval_entries : e[1] = key}}

put_eval(p, kind, key, json) ==
    /\ session_matches(p)
    /\ \E gone \in Evicted(key) :
          eval_entries' = (eval_entries \ gone)
             \cup {<<key, [kind |-> kind, flake_root |-> p.flake_root, json |-> json]>>}
    /\ UNCHANGED <<eval_nix, eval_config, eval_flakes>>

-----------------------------------------------------------------------------
(* The client's steps; each of the four requests is a connection of its    *)
(* own, and other clients' requests fall between them.                     *)

eval_cache_key(s) == <<s.kind, s.session.flake_fingerprint, s.attr>>

EvalGoto(c, pc) == eval_client' = [eval_client EXCEPT ![c].pc = pc]

(* The context is built: the fingerprint is read before anything else.     *)
eval_worker_context_for(c, p, kind, attr) ==
    /\ eval_client[c].pc = "idle"
    /\ eval_client' = [eval_client EXCEPT ![c] =
          [pc |-> "prepare", session |-> p, kind |-> kind, attr |-> attr,
           answer |-> {}]]
    /\ UNCHANGED <<eval_nix, eval_config, eval_flakes, eval_entries>>

(* try_worker_get_if: eval.prepare, then eval.get.                         *)
try_worker_prepare(c) ==
    /\ eval_client[c].pc = "prepare"
    /\ prepare(eval_client[c].session)
    /\ EvalGoto(c, "get")

try_worker_get(c) ==
    /\ eval_client[c].pc = "get"
    /\ LET s == eval_client[c]
           hits == get_eval(s.session, s.kind, eval_cache_key(s))
       IN  eval_client' = [eval_client EXCEPT
              ![c].pc = IF hits = {} THEN "eval" ELSE "done",
              ![c].answer = {e[2].json : e \in hits}]
    /\ UNCHANGED <<eval_nix, eval_config, eval_flakes, eval_entries>>

(* nix eval ran; try_worker_put_if binds the session again first.          *)
try_worker_put_prepare(c) ==
    /\ eval_client[c].pc = "eval"
    /\ prepare(eval_client[c].session)
    /\ EvalGoto(c, "put")

try_worker_put(c) ==
    /\ eval_client[c].pc = "put"
    /\ LET s == eval_client[c]
       IN  put_eval(s.session, s.kind, eval_cache_key(s),
                    [session |-> s.session, kind |-> s.kind, attr |-> s.attr])
    /\ eval_client' = [eval_client EXCEPT ![c] = EvalIdle]

(* A request is refused (another session, too large) or nobody answers:    *)
(* the client evaluates by itself, or goes on with what it has.            *)
try_once_fails(c) ==
    /\ eval_client[c].pc \in {"prepare", "get", "eval", "put"}
    /\ eval_client' = [eval_client EXCEPT ![c] =
          IF @.pc \in {"prepare", "get"} THEN [@ EXCEPT !.pc = "eval"] ELSE EvalIdle]
    /\ UNCHANGED <<eval_nix, eval_config, eval_flakes, eval_entries>>

EvalReturn(c) ==
    /\ eval_client[c].pc = "done"
    /\ eval_client' = [eval_client EXCEPT ![c] = EvalIdle]
    /\ UNCHANGED <<eval_nix, eval_config, eval_flakes, eval_entries>>

EvalNext ==
    \E c \in EvalClients :
        \/ \E p \in EvalSessions, kind \in EvalKinds, attr \in EvalAttrs :
              eval_worker_context_for(c, p, kind, attr)
        \/ try_worker_prepare(c)
        \/ try_worker_get(c)
        \/ try_worker_put_prepare(c)
        \/ try_worker_put(c)
        \/ try_once_fails(c)
        \/ EvalReturn(c)

EvalSpec == EvalInit /\ [][EvalNext]_eval_vars

-----------------------------------------------------------------------------

(* An answer that eval.get gives was evaluated for exactly the session,    *)
(* kind and attribute that were asked for, however the prepares and puts   *)
(* of other clients, with other fingerprints, fell in between.             *)
EvalAnswerMatches ==
    \A c \in EvalClients : eval_client[c].pc = "done" =>
        \A j \in eval_client[c].answer :
            /\ j.session = eval_client[c].session
            /\ j.kind = eval_client[c].kind
            /\ j.attr = eval_client[c].attr

=============================================================================
