--------------------------- MODULE MCPresetSystem ---------------------------
(* A small instance of PresetSystem for TLC.                               *)
EXTENDS PresetSystem

File == INSTANCE ConfigFile WITH
  MaxPresets <- 2,
  Texts      <- {"", "x", "u", "v"},
  ValidURLs  <- {"u", "v"},
  Shorter    <- {}

\* Two usable files, one with a station less, and one whose station cannot
\* be encoded.
Two == <<File!Fields(<<"x", "u">>), File!Fields(<<"x", "v">>)>>
One == <<File!Fields(<<"x", "v">>)>>
Odd == <<File!Fields(<<"u", "u">>)>>
MCEditions == {Two, One, Odd}
MCEmptyFile == << >>
MCContents == MCEditions \cup {MCEmptyFile}
MCCut(f) == {MCEmptyFile}
MCParsed == [f \in MCContents |-> File!ParseConfig(f)]
MCParse(f) == MCParsed[f]
MCConfigs == {MCParsed[f] : f \in MCEditions}
MCUnencodable == {MCParsed[Odd]}
MCFingerprints == [c \in MCConfigs |-> File!Fingerprint(c)]
MCFingerprint(c) == MCFingerprints[c]
MCStations == UNION {{c[i] : i \in DOMAIN c} : c \in MCConfigs}
MCButtons == 1..2
MCNone == {}

MCIdFields == {"serial"}
MCIdDefaults == [f \in MCIdFields |-> "default"]
MCMakeETag(d) == <<"etag", d>>
=============================================================================
