--------------------------- MODULE MCPresetServer ---------------------------
(* Small instances of PresetServer for TLC.                                *)
EXTENDS PresetServer, TLC

CONSTANTS h1, h2, acc1, acc2, b1, t1, t2

File == INSTANCE ConfigFile WITH
  MaxPresets <- 6,
  Texts      <- {"", "x", "u", "v"},
  ValidURLs  <- {"u", "v"},
  Shorter    <- {}

\* Two stations that differ in their URL only.
S1 == [name |-> "x", stream |-> "u", image |-> ""]
S2 == [name |-> "x", stream |-> "v", image |-> ""]
MCStations == {S1, S2}

\* Two configurations with the buttons swapped; one with a button less, and
\* the same with that one playing a station that cannot be encoded.
MCSwapped == {<<S1, S2>>, <<S2, S1>>}
MCFewer == {<<S1, S2>>, <<S1>>}
MCUnencodable == {<<S1>>}
MCNone == {}

\* The flag defaults; :8090/info may answer without the serial.
MCIdFields == {"serial", "name"}
MCIdDefaults == [f \in MCIdFields |-> "default"]
MCInfo == {[serial |-> Empty, name |-> "info"]}

\* The ETag of a document is as good as the document: no collisions.
MCFingerprints == [c \in MCSwapped \cup MCFewer |-> File!Fingerprint(c)]
MCFingerprint(c) == MCFingerprints[c]
MCMakeETag(d) == <<"etag", d>>

Symmetry == Permutations(Handlers)
=============================================================================
