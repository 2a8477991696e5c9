--------------------------- MODULE MCCapabilities ---------------------------
EXTENDS Capabilities

(* A Nix from before the feature floor and one from after it.              *)
MCCapBanner ==
    [b \in CapBinaries |->
        IF b = "old" THEN [level |-> 0, determinate |-> FALSE, config |-> FALSE,
                           help |-> {"flake", "offline"}]
        ELSE [level |-> 1, determinate |-> FALSE, config |-> TRUE,
              help |-> {"flake", "no-write-lock-file"}]]

=============================================================================
