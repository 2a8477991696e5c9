---------------------------- MODULE Capabilities ----------------------------
(***************************************************************************)
(* Detection of what the installed Nix can do, with its cache on disk      *)
(* (nxr-nix/src/capabilities.rs and capability_cache.rs).  Commands run    *)
(* side by side while the user edits nix.conf and switches to another Nix  *)
(* and back; each probe is a process of its own.                           *)
(*                                                                         *)
(* A Nix is identified by its canonical path, size, times, device and      *)
(* inode.  A configuration is the set of settings that negotiation looks   *)
(* at; it comes from one file that the digest covers and from the          *)
(* environment of the command.  The file is one of a list of versions,     *)
(* which differ in what the digest covers: contents, length, and times of  *)
(* modification and birth.  Files that nix.conf includes are left out.     *)
(***************************************************************************)
EXTENDS Naturals, Sequences, FiniteSets

CONSTANTS
    CapClients,    \* commands
    CapBinaries,   \* identities of Nix executables
    CapBanner,     \* identity -> what its probes say: see CapBannerShape
    CapEnvs,       \* settings that the environment of a command may add
    NoCapEntry,    \* no file in the cache
    MaxCapCommands,\* commands begun
    MaxCapChanges  \* changes of nix.conf and exchanges of the executable

(* level 0: before FEATURE_FLOOR (2.4), 1: before the tested floor (2.18), *)
(* 2: from there on; config: whether `nix config show` works; help: what   *)
(* its help texts mention.                                                 *)
CapBannerShape == {"level", "determinate", "config", "help"}

ASSUME CapAssumption ==
    \A b \in CapBinaries : DOMAIN CapBanner[b] = CapBannerShape /\ CapBanner[b].level \in 0..2

VARIABLES
    cp_nix,      \* the executable that the name `nix` leads to
    cp_files,    \* the versions of nix.conf so far, by their settings
    cp_at,       \* the version in place
    cp_back,     \* ghost: versions that were put back in place
    cp_begun,    \* commands begun
    cp_changes,  \* changes and exchanges so far
    cp_cache,    \* the files of the cache, by identity
    cp           \* the commands

conf_vars == <<cp_files, cp_at, cp_back>>
cp_vars == <<cp_nix, conf_vars, cp_begun, cp_changes, cp_cache, cp>>

CapFlags == {"offline", "accept-flake-config", "no-write-lock-file"}
NoConfig == [shown |-> FALSE, settings |-> {}]

(* Three ghosts: calm, nothing has changed since the command began; sound, *)
(* the executable was not exchanged while what it knows was probed, and no *)
(* help was left out that would have told more; under, the version of      *)
(* nix.conf that was in place when the configuration was asked for.        *)
CapIdle == [pc |-> "idle", identity |-> NoCapEntry, env |-> {}, digest |-> NoCapEntry,
            banner |-> NoCapEntry, config |-> NoConfig, caps |-> {}, calm |-> TRUE, sound |-> TRUE,
            under |-> 0]

-----------------------------------------------------------------------------
(* nix config show, with the settings of the file and the environment.     *)
probe_config_json(nix, env) ==
    IF CapBanner[nix].config THEN [shown |-> TRUE, settings |-> cp_files[cp_at] \cup env] ELSE NoConfig

should_skip_help_probes(nix, config) ==
    LET b == CapBanner[nix]
    IN  b.determinate \/ (config.shown /\ b.level >= 1) \/ b.level = 2

detect_flakes_enabled(nix, config, help) ==
    "flakes" \in config.settings \/ CapBanner[nix].determinate \/ "flake" \in help

negotiate_capabilities(nix, config, help) ==
    LET flakes == detect_flakes_enabled(nix, config, help)
        floor == CapBanner[nix].level >= 1
        given(name, condition) == IF condition THEN {name} ELSE {}
    IN  given("flakes", flakes)
        \cup given("offline", "offline" \in help \/ floor)
        \cup given("json-log", "log-format" \in help \/ floor)
        \cup given("no-write-lock-file", flakes /\ ("no-write-lock-file" \in help \/ floor))
        \cup given("accept-flake-config", flakes /\ ("accept-flake-config" \in config.settings
                                          \/ "accept-flake-config" \in help \/ floor))
        \cup given("print-dev-env", "print-dev-env" \in help \/ (floor /\ flakes))

probe_help_text(nix, config) == IF should_skip_help_probes(nix, config) THEN {} ELSE CapBanner[nix].help

(* Fault: the digest covers what nix.conf says and not its times.          *)
env_config_digest_contents(env) == [env |-> env, conf |-> cp_files[cp_at], stamp |-> 0]

(* Times and length are those of the version, and the same again when it   *)
(* is put back.                                                            *)
env_config_digest(env) == [env |-> env, conf |-> cp_files[cp_at], stamp |-> cp_at]

-----------------------------------------------------------------------------
CapInit ==
    /\ cp_nix \in CapBinaries /\ cp_begun = 0 /\ cp_changes = 0
    /\ cp_files \in {<<{}>>, <<{"flakes"}>>} /\ cp_at = 1 /\ cp_back = {}
    /\ cp_cache = [b \in CapBinaries |-> NoCapEntry] /\ cp = [c \in CapClients |-> CapIdle]

Advance(c, next) == cp' = [cp EXCEPT ![c] = next]
Answer(c, caps, sound, under) ==
    cp' = [cp EXCEPT ![c] = [CapIdle EXCEPT !.pc = "answered", !.env = cp[c].env, !.caps = caps,
                             !.calm = cp[c].calm, !.sound = sound, !.under = under]]
CapStore == <<cp_nix, conf_vars, cp_begun, cp_changes, cp_cache>>

(* The identity and the digest are taken before anything is probed.        *)
detect_nix_environment(c) ==
    /\ cp[c].pc = "idle" /\ cp_begun < MaxCapCommands /\ cp_begun' = cp_begun + 1
    /\ \E env \in CapEnvs, refresh \in BOOLEAN :
        Advance(c, [cp[c] EXCEPT !.pc = IF refresh THEN "version" ELSE "load", !.identity = cp_nix,
                                 !.env = env, !.digest = env_config_digest(env)])
    /\ UNCHANGED <<cp_nix, conf_vars, cp_changes, cp_cache>>

(* A file that cannot be read, is of another identity or has expired is no *)
(* entry.  An equal digest is a hit; another one keeps the banner.         *)
load_cached_entry(c) ==
    /\ cp[c].pc = "load"
    /\ LET entry == cp_cache[cp[c].identity]
       IN  IF entry = NoCapEntry THEN Advance(c, [cp[c] EXCEPT !.pc = "version"])
           ELSE IF entry.expired THEN Advance(c, [cp[c] EXCEPT !.pc = "version"])
           ELSE IF entry.digest = cp[c].digest
           THEN Answer(c, entry.caps, cp[c].sound /\ entry.sound, entry.under)
           ELSE Advance(c, [cp[c] EXCEPT !.pc = "reprobe", !.banner = entry.banner,
                                         !.sound = @ /\ entry.sound])
    /\ UNCHANGED CapStore

probe_version_banner(c) ==
    /\ cp[c].pc = "version"
    /\ \/ Advance(c, [cp[c] EXCEPT !.pc = "config", !.banner = cp_nix])
       \/ cp' = [cp EXCEPT ![c] = CapIdle]
    /\ UNCHANGED CapStore

CapConfig(c) ==
    /\ cp[c].pc = "config"
    /\ Advance(c, [cp[c] EXCEPT !.pc = "help", !.config = probe_config_json(cp_nix, cp[c].env),
                                !.under = cp_at])
    /\ UNCHANGED CapStore

(* The help is that of the executable, the version that of the banner.     *)
detect_capabilities_with_preprobed_config(c) ==
    /\ cp[c].pc = "help"
    /\ LET help == IF should_skip_help_probes(cp[c].banner, cp[c].config) THEN {} ELSE CapBanner[cp_nix].help
       IN  Advance(c, [cp[c] EXCEPT !.pc = "store",
                                    !.caps = negotiate_capabilities(cp[c].banner, cp[c].config, help)])
    /\ UNCHANGED CapStore

(* With a banner from the cache only the configuration is asked for.       *)
reprobe_config_layer(c) ==
    /\ cp[c].pc = "reprobe"
    /\ LET config == probe_config_json(cp_nix, cp[c].env)
       IN  Advance(c, [cp[c] EXCEPT !.pc = "store", !.under = cp_at,
                                    !.sound = @ /\ should_skip_help_probes(cp_nix, config),
                                    !.caps = negotiate_capabilities(cp[c].banner, config, {})])
    /\ UNCHANGED CapStore

(* The entry replaces the file with one rename; a failure is ignored.      *)
store_cached_entry(c) ==
    /\ cp[c].pc = "store"
    /\ Answer(c, cp[c].caps, cp[c].sound, cp[c].under)
    /\ \/ cp_cache' = [cp_cache EXCEPT ![cp[c].identity] =
              [banner |-> cp[c].banner, digest |-> cp[c].digest, caps |-> cp[c].caps,
               sound |-> cp[c].sound, under |-> cp[c].under, expired |-> FALSE]]
       \/ UNCHANGED cp_cache
    /\ UNCHANGED <<cp_nix, conf_vars, cp_begun, cp_changes>>

(* A flag that the user asks for and Nix lacks is an error; one that nxr   *)
(* would like to use is left away.                                         *)
apply_optional_flags(c) ==
    /\ cp[c].pc = "answered"
    /\ \E asked \in {{"no-write-lock-file"}, CapFlags} :
        IF asked \ {"no-write-lock-file"} \subseteq cp[c].caps
        THEN Advance(c, [cp[c] EXCEPT !.pc = "spawned", !.caps = asked \cap @])
        ELSE cp' = [cp EXCEPT ![c] = CapIdle]
    /\ UNCHANGED CapStore

CapAgain(c) ==
    /\ cp[c].pc \in {"spawned"}
    /\ cp' = [cp EXCEPT ![c] = CapIdle] /\ UNCHANGED CapStore

-----------------------------------------------------------------------------
(* The user and the time.  Every command under way remembers that it was   *)
(* disturbed.                                                              *)
Disturbed == [c \in CapClients |-> IF cp[c].pc = "idle" THEN cp[c] ELSE [cp[c] EXCEPT !.calm = FALSE]]

ConfChange ==
    /\ cp_changes < MaxCapChanges /\ cp_changes' = cp_changes + 1
    /\ cp' = Disturbed /\ UNCHANGED <<cp_nix, cp_begun, cp_cache>>

(* An edit gives nix.conf new times, even one that undoes another.         *)
EditConf ==
    /\ ConfChange
    /\ \E s \in SUBSET {"flakes"} : s # cp_files[cp_at] /\ cp_files' = Append(cp_files, s)
    /\ cp_at' = Len(cp_files) + 1 /\ UNCHANGED cp_back

(* A file that was set aside comes back with its times, as with mv, cp -p  *)
(* or a link into the Nix store; two edits in one tick of the clock do the *)
(* same.                                                                   *)
PutBackConf ==
    /\ ConfChange
    /\ \E v \in 1..Len(cp_files) : v # cp_at /\ cp_at' = v /\ cp_back' = cp_back \cup {v}
    /\ UNCHANGED cp_files

(* Switching generations leaves the files as they are: going back restores *)
(* the identity.                                                           *)
SwitchNix ==
    /\ cp_changes < MaxCapChanges /\ cp_changes' = cp_changes + 1
    /\ \E b \in CapBinaries \ {cp_nix} : cp_nix' = b
    /\ cp' = [c \in CapClients |-> IF cp[c].pc = "idle" THEN cp[c]
                                   ELSE [cp[c] EXCEPT !.calm = FALSE, !.sound = FALSE]]
    /\ UNCHANGED <<conf_vars, cp_begun, cp_cache>>

(* Seven days pass, or NXR_CAPABILITY_CACHE_TTL_SECS.                      *)
CapExpire ==
    /\ \E b \in CapBinaries : /\ cp_cache[b] # NoCapEntry
                              /\ cp_cache' = [cp_cache EXCEPT ![b] = [@ EXCEPT !.expired = TRUE]]
    /\ UNCHANGED <<cp_nix, conf_vars, cp_begun, cp_changes, cp>>

clear_capability_cache ==
    /\ cp_cache' = [b \in CapBinaries |-> NoCapEntry]
    /\ UNCHANGED <<cp_nix, conf_vars, cp_begun, cp_changes, cp>>

CapNext ==
    \/ \E c \in CapClients :
        \/ detect_nix_environment(c) \/ load_cached_entry(c) \/ probe_version_banner(c) \/ CapConfig(c)
        \/ detect_capabilities_with_preprobed_config(c) \/ reprobe_config_layer(c) \/ store_cached_entry(c)
        \/ apply_optional_flags(c) \/ CapAgain(c)
    \/ EditConf \/ PutBackConf \/ SwitchNix \/ CapExpire \/ clear_capability_cache

CapSpec == CapInit /\ [][CapNext]_cp_vars

-----------------------------------------------------------------------------
(* What a command would learn if it asked Nix now.                         *)
FreshCapabilities(c) ==
    LET config == probe_config_json(cp_nix, cp[c].env)
    IN  negotiate_capabilities(cp_nix, config, probe_help_text(cp_nix, config))

(* What the command was told is what it would learn now, and its child is  *)
(* given no flag that this Nix refuses.                                    *)
ToldFresh(c) ==
    /\ cp[c].pc = "answered" => cp[c].caps = FreshCapabilities(c)
    /\ cp[c].pc = "spawned" => cp[c].caps \subseteq FreshCapabilities(c)

(* A command that nobody disturbs learns what the Nix at hand can do, even *)
(* if the entry it uses was written while nix.conf was edited, and edited  *)
(* back with new times.  If the file in place is one that was put back     *)
(* with its old times, this holds of what was probed under that file: an   *)
(* entry that was probed under another one, by a command that had taken    *)
(* the digest before, passes for the file put back.  What an exchange of   *)
(* the executable during the probes, or a help text that was not asked for *)
(* again, leaves in the cache is excepted.                                 *)
CapabilitiesAgree ==
    \A c \in CapClients :
        cp[c].calm /\ cp[c].sound /\ (cp[c].under = cp_at \/ cp_at \notin cp_back) => ToldFresh(c)

(* The same without the exception for a file that was put back.  The       *)
(* comment on the cache's schema (capability_cache.rs:34-35) says that the *)
(* digest has the ctime of the file, which putting it back would change;   *)
(* the code asks for created(), the time of birth.                         *)
CapabilitiesCurrent == \A c \in CapClients : cp[c].calm /\ cp[c].sound => ToldFresh(c)

=============================================================================
