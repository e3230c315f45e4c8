------------------------- MODULE FileToButton_proofs -------------------------
(***************************************************************************)
(* For files of any length, made of any lines: everything the runs check   *)
(* of the file format and of what its buttons play.                        *)
(***************************************************************************)
EXTENDS FileToButton, ConfigFile_proofs, StationData_proofs

USE LinesAssumption

\* All that has to be known of a file.
FileInv == file \in Seq(Lines)

LEMMA FileInvariant == Spec => []FileInv
  <1>1. Init => FileInv
    BY EmptySeq DEF Init, FileInv
  <1>2. FileInv /\ [Next]_file => FileInv'
    <2> SUFFICES ASSUME FileInv, [Next]_file
                 PROVE  FileInv'
      OBVIOUS
    <2>1. CASE Next
      BY <2>1, AppendProperties DEF FileInv, Next
    <2>2. CASE UNCHANGED file
      BY <2>2 DEF FileInv
    <2> QED
      BY <2>1, <2>2
  <1> QED
    BY <1>1, <1>2, PTL DEF Spec

\* Every file is parsed as the comment of ParseConfig says (config.go:38-50).
THEOREM AlwaysDocumented == Spec => []Documented
  <1>1. FileInv => Documented
    BY ParsesAsCommented DEF FileInv, Documented
  <1> QED
    BY <1>1, FileInvariant, PTL

\* Whatever ParseConfig accepts is a list of one to MaxPresets stations, each
\* with a name and a usable stream.
THEOREM AlwaysWellformed == Spec => []Wellformed
  <1>1. FileInv => Wellformed
    BY ParsedStations DEF FileInv, Wellformed
  <1> QED
    BY <1>1, FileInvariant, PTL

\* No cut of any file moves a station to another button (config.go:49-50).
THEOREM ButtonsStay == Spec => []ButtonsNeverShift
  <1>1. FileInv => ButtonsNeverShift
    BY CutsKeepButtons DEF FileInv, ButtonsNeverShift
  <1> QED
    BY <1>1, FileInvariant, PTL

\* No two configurations have the same fingerprint (config.go:201-214).
THEOREM FingerprintsDiffer == Spec => []FingerprintTellsApart
  <1>1. ASSUME NEW f \in Seq(Lines), ParseConfig(f) # Nil
        PROVE  ParseConfig(f) \in Seq(Station)
    BY <1>1, ParsedStations DEF YieldsStations
  <1>2. ASSUME NEW c \in Configurations
        PROVE  c \in Seq(Station)
    <2>1. PICK n \in 1..MaxPresets : \E f \in [1..n -> Lines] :
                 c = ParseConfig(f) /\ ParseConfig(f) # Nil
      BY DEF Configurations
    <2>2. PICK f \in [1..n -> Lines] : c = ParseConfig(f) /\ ParseConfig(f) # Nil
      BY <2>1
    <2>3. f \in Seq(Lines)
      BY SeqDef
    <2> QED
      BY <1>1, <2>2, <2>3
  <1>3. FileInv => FingerprintTellsApart
    BY <1>1, <1>2, FingerprintInjective DEF FileInv, FingerprintTellsApart
  <1> QED
    BY <1>3, FileInvariant, PTL

-----------------------------------------------------------------------------
(* Buttons.                                                                *)

\* A station made of texts has a payload and blobs.
LEMMA StationsHaveBlobs ==
  ASSUME NEW station, station.name \in Texts, station.stream \in Texts,
         station.image \in Texts,
         NEW enc \in Encodings, NEW shape \in Shapes
  PROVE  Marshal(station) # Nil /\ Encode(enc, Marshal(station), shape) # Nil
  <1> DEFINE payload == Marshal(station)
             blob    == Encode(enc, payload, shape)
  <1>1. payload \in Payloads
    BY DEF Marshal, Payloads, Sanitized
  <1> HIDE DEF payload
  <1>2. shape.rem \in 0..2 /\ shape.sextets \subseteq {62, 63}
    BY DEF Shapes
  <1>3. \A x \in {62, 63} : enc.chars[x] \in {"-", "_", "+", "/", " "}
    BY TwoAlphabets, Alphabets
  <1>4. {enc.chars[x] : x \in shape.sextets} \subseteq {"-", "_", "+", "/", " "}
    <2> SUFFICES ASSUME NEW x \in shape.sextets
                 PROVE  enc.chars[x] \in {"-", "_", "+", "/", " "}
      OBVIOUS
    <2>1. x \in {62, 63}
      BY <1>2
    <2> QED
      BY <1>3, <2>1
  <1>5. Padding(enc, shape.rem) \in 0..2
    <2>1. shape.rem = 0 \/ shape.rem = 1 \/ shape.rem = 2
      BY <1>2
    <2> QED
      BY <2>1 DEF Padding
  <1>6. blob \in Blobs
    BY <1>1, <1>2, <1>4, <1>5 DEF Encode, Blobs
  <1> HIDE DEF blob
  <1>7. payload # Nil /\ blob # Nil
    BY <1>1, <1>6, PayloadNilAssumption
  <1> QED
    BY <1>7 DEF payload, blob

\* Every button of every file plays its own station (bmx.go:11-21,
\* encoding.go:17-23).
THEOREM PressesPlay == Spec => []PressPlaysItsStation
  <1>1. ASSUME FileInv, ParseConfig(file) # Nil,
               NEW i \in 1..Len(ParseConfig(file)), NEW shape \in Shapes,
               NEW known \in {Nil, SourceProviders}
        PROVE  Press("b", PresetOf("b", ParseConfig(file)[i], shape), known)
                 = [status |-> 200, playback |-> Marshal(ParseConfig(file)[i])]
    <2> DEFINE station == ParseConfig(file)[i]
    <2>1. station \in Station
      <3>1. ParseConfig(file) \in Seq(Station)
        BY <1>1, ParsedStations DEF FileInv, YieldsStations
      <3> QED
        BY <3>1, ElementOfSeq
    <2> HIDE DEF station
    <2>2. /\ station.name \in Texts /\ station.image \in Texts
          /\ station.stream \in Texts \ {Empty}
      BY <2>1, TextsAssumption DEF Station
    <2>3. RawURLEncoding \in Encodings
      BY DEF Encodings
    <2>4. Marshal(station) # Nil /\ EncodeStationData(station, shape) # Nil
      BY <2>2, <2>3, StationsHaveBlobs DEF EncodeStationData
    <2>5. Sanitize(station.stream) # Empty
      BY <2>2, SanitizeAssumption
    <2>6. Press("b", PresetOf("b", station, shape), known)
            = [status |-> 200, playback |-> Marshal(station)]
      BY <2>4, <2>5, PressPlays
    <2> QED
      BY <2>6 DEF station
  <1>2. FileInv => PressPlaysItsStation
    BY <1>1, Zenon DEF PressPlaysItsStation
  <1> QED
    BY <1>2, FileInvariant, PTL

\* A blob of any encoding plays its station or is refused (encoding.go:32-34).
THEOREM EncodingsPlay == Spec => []AnyEncodingPlays
  <1>1. ASSUME FileInv, NEW i \in 1..Len(file),
               file[i].kind = "fields", Len(file[i].fields) >= 2
        PROVE  /\ StationOf(file[i]).name \in Texts
               /\ StationOf(file[i]).stream \in Texts
               /\ StationOf(file[i]).image \in Texts
    <2> DEFINE l == file[i]
    <2>1. Line(l)
      BY <1>1, ElementOfSeq DEF FileInv
    <2> HIDE DEF l
    <2>2. l.kind = "fields" /\ Len(l.fields) >= 2
      BY <1>1 DEF l
    <2>3. l.fields \in Seq(Texts)
      <3>1. Blank.kind # "fields" /\ Comment.kind # "fields" /\ TooLong.kind # "fields"
        BY DEF Blank, Comment, TooLong
      <3> QED
        BY <2>1, <2>2, <3>1, Zenon DEF Line
    <2>4. Len(l.fields) \in Nat /\ \A n \in 1..Len(l.fields) : l.fields[n] \in Texts
      BY <2>3, LenProperties
    <2>5. /\ l.fields[1] \in Texts /\ l.fields[2] \in Texts
          /\ Len(l.fields) >= 3 => l.fields[3] \in Texts
      BY <2>2, <2>4
    <2>6. /\ StationOf(l).name \in Texts /\ StationOf(l).stream \in Texts
          /\ StationOf(l).image \in Texts
      BY <2>5, TextsAssumption DEF StationOf
    <2> QED
      BY <2>6 DEF l
  <1>2. FileInv => AnyEncodingPlays
    <2> SUFFICES ASSUME FileInv, NEW i \in 1..Len(file),
                        file[i].kind = "fields", Len(file[i].fields) >= 2,
                        NEW enc \in Encodings, NEW shape \in Shapes,
                        NEW escaped \in BOOLEAN
                 PROVE  LET station == Marshal(StationOf(file[i]))
                            blob    == Encode(enc, station, shape)
                        IN  HandleStation(Query(blob, escaped)) =
                              IF station.stream = Empty \/ ("+" \in blob.chars /\ ~escaped)
                                THEN BadRequest
                                ELSE [status |-> 200, playback |-> station]
      BY Zenon DEF AnyEncodingPlays
    <2> DEFINE s == StationOf(file[i])
    <2>1. s.name \in Texts /\ s.stream \in Texts /\ s.image \in Texts
      BY <1>1
    <2> HIDE DEF s
    <2>2. Marshal(s) # Nil /\ Encode(enc, Marshal(s), shape) # Nil
      BY <2>1, StationsHaveBlobs
    <2>3. HandleStation(Query(Encode(enc, Marshal(s), shape), escaped)) =
            IF Marshal(s).stream = Empty
                 \/ ("+" \in Encode(enc, Marshal(s), shape).chars /\ ~escaped)
              THEN BadRequest
              ELSE [status |-> 200, playback |-> Marshal(s)]
      BY <2>2, AnyBlobPlays
    <2> QED
      BY <2>3 DEF s
  <1> QED
    BY <1>2, FileInvariant, PTL

=============================================================================
