--------------------------- MODULE ProvisionWifi ---------------------------
(***************************************************************************)
(* scripts/provision-wifi.sh: one profile is posted to the speaker's setup *)
(* API, at most twice, over a link that may lose the request or the        *)
(* answer.  A speaker that has accepted a profile leaves its setup network *)
(* and cannot be reached there any more.                                   *)
(***************************************************************************)
CONSTANT Unknown    \* post_profile has not returned

ASSUME WifiAssumption == Unknown \notin {0, 1, 2}

VARIABLES
  joined,   \* has the speaker a profile?
  attempt,  \* of post_profile; 0 when it does not run
  told      \* what post_profile returned last

wifiVars == <<joined, attempt, told>>

WifiInit ==
  /\ joined = FALSE
  /\ attempt = 0
  /\ told = Unknown

PostProfile ==
  /\ attempt = 0
  /\ attempt' = 1
  /\ told' = Unknown
  /\ UNCHANGED joined

Return(code) == attempt' = 0 /\ told' = code

\* The speaker answers 2xx or another status.
AcceptedUnchecked ==
  /\ attempt # 0 /\ ~joined
  /\ joined' \in BOOLEAN
  /\ Return(0)
Accepted ==
  /\ attempt # 0 /\ ~joined
  /\ joined' = TRUE
  /\ Return(0)
Rejected ==
  /\ attempt # 0 /\ ~joined
  /\ UNCHANGED joined
  /\ Return(2)

\* curl fails: the request was not delivered, or its answer was not.  One
\* retry, then the caller is told that the speaker could not be reached.
TransportError ==
  /\ attempt # 0
  /\ joined' \in {joined, TRUE}
  /\ IF attempt = 1 THEN attempt' = 2 /\ UNCHANGED told ELSE Return(1)

-----------------------------------------------------------------------------
(* Properties.                                                             *)

WifiTypeOK ==
  /\ joined \in BOOLEAN
  /\ attempt \in {0, 1, 2}
  /\ told \in {0, 1, 2, Unknown}

\* "a caller never mistakes a rejection for success": a speaker that is
\* reported to have accepted the profile has, across the retry
\* (provision-wifi.sh:55-62).
NeverMistakenForSuccess == told = 0 => joined

=============================================================================
