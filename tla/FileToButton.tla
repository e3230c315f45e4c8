---------------------------- MODULE FileToButton ----------------------------
(***************************************************************************)
(* From a line of presets.conf to the stream a button plays: any file, and *)
(* for each of its stations the location, the query string, the catalog,   *)
(* the registry and the station endpoint.                                  *)
(*                                                                         *)
(* The one variable is a file, grown a line at a time, so that every file  *)
(* of Lines is a state.                                                    *)
(***************************************************************************)
EXTENDS ConfigFile, StationData

CONSTANTS
  Lines,     \* the lines a file is made of
  MaxLines   \* bound on the length of a file

ASSUME LinesAssumption == \A l \in Lines : Line(l)
ASSUME MaxLinesAssumption == MaxLines \in Nat

\* json.Marshal puts something in the place of what is not UTF-8.
ASSUME SanitizeAssumption == \A t \in Texts \ {Empty} : Sanitize(t) # Empty

Sanitized == {Sanitize(t) : t \in Texts}
Payloads == [name : Sanitized, stream : Sanitized, image : Sanitized]
Blobs == [payload : Payloads, rem : 0..2,
          chars : SUBSET {"-", "_", "+", "/", " "}, padding : 0..2]

\* A blob and its payload are something.
ASSUME PayloadNilAssumption == Nil \notin Payloads \cup Blobs

VARIABLE file

Init == file = << >>
Next == Len(file) < MaxLines /\ \E l \in Lines : file' = Append(file, l)
Spec == Init /\ [][Next]_file

-----------------------------------------------------------------------------

\* ParseConfig is what its comment says, on every file (config.go:38-50).
Documented == ParsesAsDocumented(file)

\* Whatever ParseConfig accepts, the renderers and buttons can rely on.
Wellformed == YieldsStations(file)

\* presets.conf cut short anywhere, even in the middle of a line, never
\* moves a station to another button (config.go:49-50, 78-81).
ButtonsNeverShift == CutKeepsButtons(file)

\* Every button of every file plays its own station: through the location,
\* the query string, the catalog (also one known from before), the registry
\* and the station endpoint, whatever the bytes of the blob are.  A text that
\* is not UTF-8 is the one thing that changes on the way (encoding.go:17-23,
\* bmx.go:11-21).
PressPlaysItsStation ==
  LET c == ParseConfig(file)
  IN  c # Nil =>
        \A i \in 1..Len(c), shape \in Shapes, known \in {Nil, SourceProviders} :
          Press("b", PresetOf("b", c[i], shape), known)
            = [status |-> 200, playback |-> Marshal(c[i])]

\* A blob minted with any of the four encodings plays its station, or is
\* refused if it has none or its '+' was not escaped; never anything else
\* (encoding.go:32-34).
AnyEncodingPlays ==
  \A i \in 1..Len(file) :
    file[i].kind = "fields" /\ Len(file[i].fields) >= 2 =>
      \A enc \in Encodings, shape \in Shapes, escaped \in BOOLEAN :
        LET station == Marshal(StationOf(file[i]))
            blob    == Encode(enc, station, shape)
        IN  HandleStation(Query(blob, escaped)) =
              IF station.stream = Empty \/ ("+" \in blob.chars /\ ~escaped)
                THEN BadRequest
                ELSE [status |-> 200, playback |-> station]

\* Two configurations with the same fingerprint are the same, so the reload
\* loop and the /full slot never miss a change (config.go:201-214).
Configurations ==
  {ParseConfig(f) : f \in UNION {[1..n -> Lines] : n \in 1..MaxPresets}} \ {Nil}
FingerprintTellsApart ==
  ParseConfig(file) # Nil =>
    \A c \in Configurations :
      Fingerprint(c) = Fingerprint(ParseConfig(file)) => c = ParseConfig(file)
=============================================================================
