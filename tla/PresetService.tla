--------------------------- MODULE PresetService ---------------------------
(***************************************************************************)
(* What the preset endpoints promise the speaker, without caches, locks or *)
(* ETags: a request is asked, the service decides the answer in one        *)
(* instant from the configuration it holds at that instant, and when the   *)
(* call returns the speaker holds that answer for the resource it asked    *)
(* for.  A 304 is invisible at this level: it has to leave the speaker     *)
(* with exactly what a full answer would have left it with.                *)
(*                                                                         *)
(* PresetServer is shown to implement this module.                         *)
(***************************************************************************)

CONSTANTS
  Handlers,      \* the requests that can be in flight at the same time
  Resources,     \* the documents that can be asked for
  NoResource,    \* placeholder of a handler that serves nothing
  Configs,       \* the configurations an operator may install
  NoConfig,      \* no configuration yet
  Serves(_, _),  \* does the service answer for resource r under config c?
  Buttons(_, _)  \* the button -> station pairs the answer then carries

VARIABLES
  config,    \* the configuration in force
  state,     \* of each handler: "idle", "asked" or "decided"
  resource,  \* what each handler was asked for
  answer,    \* what each handler has decided to answer
  view       \* what the speaker holds for each resource

vars == <<config, state, resource, answer, view>>

NoAnswer == [ok |-> FALSE, resource |-> NoResource, buttons |-> {}]

Answer(r, c) ==
  [ok       |-> Serves(r, c),
   resource |-> r,
   buttons  |-> IF Serves(r, c) THEN Buttons(r, c) ELSE {}]

Init ==
  /\ config \in Configs \cup {NoConfig}
  /\ state = [h \in Handlers |-> "idle"]
  /\ resource = [h \in Handlers |-> NoResource]
  /\ answer = [h \in Handlers |-> NoAnswer]
  /\ view = [r \in Resources |-> NoAnswer]

Reconfigure(c) ==
  /\ config' = c
  /\ UNCHANGED <<state, resource, answer, view>>

Ask(h, r) ==
  /\ state[h] = "idle"
  /\ state' = [state EXCEPT ![h] = "asked"]
  /\ resource' = [resource EXCEPT ![h] = r]
  /\ UNCHANGED <<config, answer, view>>

Decide(h) ==
  /\ state[h] = "asked"
  /\ state' = [state EXCEPT ![h] = "decided"]
  /\ answer' = [answer EXCEPT ![h] = Answer(resource[h], config)]
  /\ UNCHANGED <<config, resource, view>>

\* A refusal (no configuration, or a document that cannot be built) leaves
\* the speaker with what it had.
Tell(h) ==
  /\ state[h] = "decided"
  /\ state' = [state EXCEPT ![h] = "idle"]
  /\ resource' = [resource EXCEPT ![h] = NoResource]
  /\ answer' = [answer EXCEPT ![h] = NoAnswer]
  /\ view' = IF answer[h].ok
               THEN [view EXCEPT ![resource[h]] = answer[h]]
               ELSE view
  /\ UNCHANGED config

\* The answer is given but never reaches the speaker.
Lose(h) ==
  /\ state[h] = "decided"
  /\ state' = [state EXCEPT ![h] = "idle"]
  /\ resource' = [resource EXCEPT ![h] = NoResource]
  /\ answer' = [answer EXCEPT ![h] = NoAnswer]
  /\ UNCHANGED <<config, view>>

\* The process dies and comes back: what was in flight is never answered.
Restart(c) ==
  /\ config' = c
  /\ state' = [h \in Handlers |-> "idle"]
  /\ resource' = [h \in Handlers |-> NoResource]
  /\ answer' = [h \in Handlers |-> NoAnswer]
  /\ UNCHANGED view

Next ==
  \/ \E c \in Configs : Reconfigure(c) \/ Restart(c)
  \/ \E h \in Handlers :
        \/ \E r \in Resources : Ask(h, r)
        \/ Decide(h)
        \/ Tell(h)
        \/ Lose(h)

Spec == Init /\ [][Next]_vars

=============================================================================
