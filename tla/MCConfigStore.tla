--------------------------- MODULE MCConfigStore ---------------------------
(* ConfigStore over small files of ConfigFile: parsing, fingerprints and   *)
(* torn writes are those of the file format.                               *)
EXTENDS ConfigStore

File == INSTANCE ConfigFile WITH
  MaxPresets <- 2,
  Empty      <- "",
  Texts      <- {"", "x", "u", "v"},
  ValidURLs  <- {"u", "v"},
  Shorter    <- {<<"u", "">>, <<"u", "v">>}

\* Two usable files, the first with two stations, and one that is not.
Two  == <<File!Fields(<<"x", "u">>), File!Fields(<<"x", "v">>)>>
One  == <<File!Fields(<<"x", "v">>)>>
Bad  == <<File!Fields(<<"x">>)>>
MCEditions == {Two, One, Bad}
MCPushes == {One}
MCCut(f) == File!CutFiles(f)
MCContents == MCEditions \cup UNION {File!CutFiles(f) : f \in MCEditions}
                \cup UNION {File!CutFiles(g) : g \in
                              UNION {File!CutFiles(f) : f \in MCEditions}}
MCConfigs == {File!ParseConfig(f) : f \in MCContents} \ {Nil}
MCEmptyFile == << >>
MCParsed == [f \in MCContents |-> File!ParseConfig(f)]
MCParse(f) == MCParsed[f]
MCFingerprint(c) == File!Fingerprint(c)
=============================================================================
