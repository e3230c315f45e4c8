---------------------------- MODULE PresetSystem ----------------------------
(***************************************************************************)
(* The daemon and the speaker together: main starts the HTTP server on the *)
(* configuration Load returns and its reload loop is the only caller of    *)
(* SetConfig (ConfigStore drives PresetServer), the speaker polls /full    *)
(* and takes its six buttons from what it gets (SERVICE.md:50-57).         *)
(*                                                                         *)
(* A process that is down, or has not loaded a configuration yet, does not *)
(* listen: the variables of the server are then those of the process       *)
(* before, and Restart replaces them all when the next one serves.         *)
(***************************************************************************)
EXTENDS Naturals, Sequences

CONSTANTS
  Contents, EmptyFile, Editions, Pushes, Parse(_), Cut(_), Absent,
  Unreadable, WriteFaults, PowerFaults,                  \* see ConfigStore
  Handlers, Accounts, Presets, Stations, Unencodable, BaseURLs, Times,
  IdFields, Empty, IdDefaults, InfoAnswers, DiskFaults, Torn,
  MakeETag(_),                                           \* see PresetServer
  Configs, FingerprintOf(_), Nil,                        \* shared by both
  Buttons        \* the buttons of the speaker: 1..MaxPresets

VARIABLES
  usb, cache, synced, pushed, nvFails, pc, data, warned, served, last,
  cfg, baseURL, items, etag, idDone, idResolved, fullMu,
  fullAccount, fullFP, fullBody, fullETag, lastFull,
  at, req, copy, snap, out, held,
  buttons  \* the station each button of the speaker plays, or Nil

Store == INSTANCE ConfigStore
Server == INSTANCE PresetServer WITH pc <- at

storeVars == <<usb, cache, synced, pushed, nvFails, pc, data, warned, served,
               last>>
serverVars == <<cfg, baseURL, items, etag, idDone, idResolved, fullMu,
                fullAccount, fullFP, fullBody, fullETag, lastFull,
                at, req, copy, snap, out, held>>
vars == <<storeVars, serverVars, buttons>>

\* ParseConfig returns at least one station, and not more than MaxPresets.
ASSUME SystemAssumption ==
  /\ Nil \notin Configs \cup Stations
  /\ Configs \subseteq Seq(Stations)
  /\ \A c \in Configs : c # << >> /\ DOMAIN c \subseteq Buttons
  /\ \A f \in Contents : Parse(f) \in Configs \cup {Nil}

NoButtons == [b \in Buttons |-> Nil]

\* The buttons a configuration, or a document, assigns; the rest are empty.
ButtonsOf(c) == [b \in Buttons |-> IF b \in DOMAIN c THEN c[b] ELSE Nil]
ButtonsIn(doc) ==
  ButtonsOf([i \in DOMAIN doc.presets |-> doc.presets[i].station])

Init ==
  /\ Store!Init
  /\ Server!Init
  /\ cfg = Nil
  /\ buttons = NoButtons

-----------------------------------------------------------------------------
(* The daemon.                                                             *)

\* NewServer and reloadOnce call SetConfig; what a process had in memory, and
\* its connections, are gone with it.
Follow ==
  IF served' = served THEN UNCHANGED serverVars
  ELSE IF served' = Nil THEN Server!Restart(cfg)
  ELSE Server!SetConfig(served')

DaemonStep ==
  /\ Store!Next
  /\ Follow
  /\ UNCHANGED buttons

\* main and the reload loop, which the operator and crashes interrupt.
DaemonRun ==
  /\ Store!Run
  /\ Follow
  /\ UNCHANGED buttons

Listening == served # Nil

Handle(h) ==
  /\ Listening
  /\ Server!FullStep(h) \/ Server!ReplyLost(h)
  /\ UNCHANGED <<storeVars, buttons>>

-----------------------------------------------------------------------------
(* The speaker.                                                            *)

Poll(h) ==
  /\ Listening
  /\ \E a \in Accounts : Server!Arrive(h, a)
  /\ UNCHANGED <<storeVars, buttons>>

\* A 200 replaces all buttons; a 304 or an error leaves them alone.
Adopt(h) ==
  /\ Listening
  /\ Server!Reply(h)
  /\ buttons' = IF out[h] = Nil \/ Server!NotModified(h)
                  THEN buttons ELSE ButtonsIn(out[h].doc)
  /\ UNCHANGED storeVars

-----------------------------------------------------------------------------
Next ==
  \/ DaemonStep
  \/ \E h \in Handlers : Handle(h) \/ Poll(h) \/ Adopt(h)

Spec == Init /\ [][Next]_vars

\* The daemon runs as in ConfigStore and serves as in PresetServer; the
\* speaker polls again and again, and not every answer is lost.
Fairness ==
  /\ WF_vars(DaemonRun)
  /\ \A h \in Handlers :
       /\ WF_vars(Poll(h))
       /\ WF_vars(Handle(h))
       /\ SF_vars(Adopt(h))

FairSpec == Spec /\ Fairness

-----------------------------------------------------------------------------
(* Properties.                                                             *)

\* The whole way of a change of stations (SERVICE.md:50-57): a usable stick
\* that stays in a speaker whose daemon stays up ends up on the buttons, all
\* of them and no others, and stays there: through Load, the cache, the
\* reload loop, the /full slot, ETags and lost answers.
SpeakerConverges ==
  \A f \in Editions : Parse(f) \notin Unencodable \cup {Nil} =>
    (<>[](usb = f /\ pc # "down") => <>[](buttons = ButtonsOf(Parse(f))))

\* The buttons of one configuration, all of them: never a mixture.
OfOneConfiguration(b) == \E c \in Configs : b = ButtonsOf(c)

\* The inductive invariant: what a configuration became on its way, in Load,
\* in the server, in the locals of its handlers, in the slot and in the
\* answers, is still one configuration, and the server has the one that the
\* reload loop remembers.
IInv ==
  /\ served \in Configs \cup {Nil}
  /\ served # Nil => cfg = served
  /\ pc \in {"compare", "write", "loaded"} => Store!Usable(data)
  /\ at \in [Handlers -> Server!PCs]
  /\ snap \in [Handlers -> Server!Snaps \cup {Nil}]
  /\ baseURL \in BaseURLs
  /\ DOMAIN out = Handlers
  /\ fullBody # Nil => OfOneConfiguration(ButtonsIn(fullBody))
  /\ \A h \in Handlers :
       /\ at[h] \in {"lock", "identity", "build", "persist"}
            => snap[h] \in Server!Snaps
       /\ at[h] = "persist" => OfOneConfiguration(ButtonsIn(fullBody))
       /\ out[h] # Nil => OfOneConfiguration(ButtonsIn(out[h].doc))
  /\ buttons = NoButtons \/ OfOneConfiguration(buttons)

\* Once the speaker has buttons it never loses all of them, whatever becomes
\* of the stick, the cache and the daemon (full.go:14-24, config.go:86-91).
NeverWiped == [][buttons # NoButtons => buttons' # NoButtons]_vars

=============================================================================
