---------------------------- MODULE ConfigKeeper ----------------------------
(***************************************************************************)
(* What loading, caching and reloading promise (config.go:123-134), without *)
(* files, tickers and fingerprints: one configuration is served, one is    *)
(* kept for the time without a stick, and only a stick makes a change.     *)
(*                                                                         *)
(* ConfigStore is shown to implement this module.                          *)
(***************************************************************************)

CONSTANTS
  Configs,     \* configurations
  NoConfig,    \* none
  Damaged(_)   \* what a file of this configuration can turn into if its
               \* write is cut short, NoConfig included

VARIABLES
  serving,  \* what the server serves
  kept,     \* what a start without a stick would serve
  taking,   \* what was found on a stick and is not served yet
  safe,     \* does what is kept survive a loss of power?
  doubt     \* was there a warning that what is served is not kept?

vars == <<serving, kept, taking, safe, doubt>>

Init ==
  /\ serving = NoConfig
  /\ kept \in Configs \cup {NoConfig}
  /\ taking = NoConfig
  /\ safe = TRUE
  /\ doubt = FALSE

Take(c) ==
  /\ taking = NoConfig
  /\ taking' = c
  /\ UNCHANGED <<serving, kept, safe, doubt>>

\* It is kept already: the flash is left alone.
Find ==
  /\ taking # NoConfig
  /\ kept = taking
  /\ doubt' = FALSE
  /\ UNCHANGED <<serving, kept, taking, safe>>

\* What was kept is given up for what will be.
Clear ==
  /\ taking # NoConfig
  /\ kept' = NoConfig
  /\ safe' = FALSE
  /\ UNCHANGED <<serving, taking, doubt>>

Keep ==
  /\ taking # NoConfig
  /\ kept' = taking
  /\ safe' = FALSE
  /\ doubt' = FALSE
  /\ UNCHANGED <<serving, taking>>

\* Keeping is best effort, but a failure is told.
FailToKeep ==
  /\ taking # NoConfig
  /\ doubt' = TRUE
  /\ \/ UNCHANGED <<kept, safe>>
     \/ kept' \in Damaged(taking) /\ safe' = FALSE
  /\ UNCHANGED <<serving, taking>>

\* A configuration is kept before it is served, or there is a warning.
Serve ==
  /\ taking # NoConfig
  /\ kept = taking \/ doubt
  /\ serving' = taking
  /\ taking' = NoConfig
  /\ UNCHANGED <<kept, safe, doubt>>

\* Without a usable stick what is kept is served, and that is a change only
\* for a process that serves nothing, or after a warning.
Resume ==
  /\ taking = NoConfig
  /\ kept # NoConfig
  /\ serving \in {NoConfig, kept} \/ doubt
  /\ serving' = kept
  /\ doubt' = FALSE
  /\ UNCHANGED <<kept, taking, safe>>

Deploy(c) ==
  /\ serving = NoConfig /\ taking = NoConfig
  /\ kept' = c
  /\ safe' = FALSE
  /\ UNCHANGED <<serving, taking, doubt>>

Flush ==
  /\ safe' = TRUE
  /\ UNCHANGED <<serving, kept, taking, doubt>>

Stop ==
  /\ serving' = NoConfig
  /\ taking' = NoConfig
  /\ doubt' = FALSE

\* A process that dies while it takes a configuration may leave a damaged
\* one; at any other time what is kept stays.
Crash ==
  /\ Stop
  /\ \/ UNCHANGED kept
     \/ taking # NoConfig /\ kept' \in Damaged(taking)
  /\ UNCHANGED safe

\* So does a loss of power, unless what is kept has reached the flash.
LosePower ==
  /\ Stop
  /\ \/ UNCHANGED kept
     \/ ~safe /\ kept' \in Damaged(kept)
  /\ safe' = TRUE

Next ==
  \/ \E c \in Configs : Take(c)
  \/ Find
  \/ Clear
  \/ Keep
  \/ FailToKeep
  \/ Serve
  \/ Resume
  \/ \E c \in Configs \cup {NoConfig} : Deploy(c)
  \/ Flush
  \/ Crash
  \/ LosePower

Spec == Init /\ [][Next]_vars

=============================================================================
