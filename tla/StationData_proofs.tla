------------------------- MODULE StationData_proofs -------------------------
(***************************************************************************)
(* For every station, whatever the bytes of its blob: a press plays it.    *)
(***************************************************************************)
EXTENDS StationData, TLAPS

\* The characters of the two alphabets.
LEMMA Alphabets ==
  /\ DOMAIN URLChars = {62, 63} /\ URLChars[62] = "-" /\ URLChars[63] = "_"
  /\ DOMAIN StdChars = {62, 63} /\ StdChars[62] = "+" /\ StdChars[63] = "/"
  BY DEF URLChars, StdChars

LEMMA TwoAlphabets ==
  ASSUME NEW enc \in Encodings
  PROVE  enc.chars = URLChars \/ enc.chars = StdChars
  BY DEF Encodings, RawURLEncoding, URLEncoding, RawStdEncoding, StdEncoding

\* A blob of this service has no '+' that the query string could change, and
\* no padding that an escape could get wrong (encoding.go:17-23).
LEMMA OwnBlob ==
  ASSUME NEW station, NEW shape \in Shapes, NEW escaped \in BOOLEAN
  PROVE  LET blob == EncodeStationData(station, shape)
         IN  /\ Query(blob, escaped) = blob
             /\ Decodes(RawURLEncoding, blob)
             /\ blob.payload = Marshal(station)
  <1> DEFINE blob == EncodeStationData(station, shape)
  <1>1. RawURLEncoding.chars = URLChars /\ \A rem : Padding(RawURLEncoding, rem) = 0
    BY DEF RawURLEncoding, Padding
  <1>2. blob = [payload |-> Marshal(station),
                rem     |-> shape.rem,
                chars   |-> {URLChars[x] : x \in shape.sextets},
                padding |-> 0]
    BY <1>1 DEF EncodeStationData, Encode
  <1> HIDE DEF blob
  <1>3. \A c \in blob.chars : c \in {"-", "_"}
    <2>1. shape.sextets \subseteq {62, 63}
      BY DEF Shapes
    <2>2. \A x \in {62, 63} : URLChars[x] \in {"-", "_"}
      BY Alphabets
    <2>3. blob.chars = {URLChars[x] : x \in shape.sextets}
      BY <1>2
    <2>4. ASSUME NEW c \in blob.chars
          PROVE  c \in {"-", "_"}
      <3>1. PICK x \in shape.sextets : c = URLChars[x]
        BY <2>3
      <3> QED
        BY <2>1, <2>2, <3>1
    <2> QED
      BY <2>4
  <1>4. {IF c = "+" THEN " " ELSE c : c \in blob.chars} = blob.chars
    BY <1>3
  <1>5. Query(blob, escaped) = blob
    BY <1>2, <1>4 DEF Query
  <1>6. Decodes(RawURLEncoding, blob)
    <2>1. "-" \in Range(URLChars) /\ "_" \in Range(URLChars)
      <3>1. 62 \in DOMAIN URLChars /\ 63 \in DOMAIN URLChars
        BY Alphabets
      <3>2. URLChars[62] = "-" /\ URLChars[63] = "_"
        BY Alphabets
      <3> QED
        BY <3>1, <3>2, Zenon DEF Range
    <2>2. blob.chars \subseteq Range(RawURLEncoding.chars)
      BY <1>1, <1>3, <2>1
    <2>3. blob.padding = 0
      BY <1>2
    <2> QED
      BY <1>1, <2>2, <2>3 DEF Decodes
  <1>7. blob.payload = Marshal(station)
    BY <1>2
  <1> QED
    BY <1>5, <1>6, <1>7 DEF blob

\* Whatever the length of its payload and the characters its blob is made of,
\* and whether the speaker escapes them or not, a station that has a stream
\* after marshalling is what the endpoint answers (server.go:292-326).
THEOREM OwnBlobsPlay ==
  ASSUME NEW station, NEW shape \in Shapes, NEW escaped \in BOOLEAN,
         Sanitize(station.stream) # Empty,
         Marshal(station) # Nil, EncodeStationData(station, shape) # Nil
  PROVE  HandleStation(Query(EncodeStationData(station, shape), escaped))
           = [status |-> 200, playback |-> Marshal(station)]
  <1> DEFINE blob == EncodeStationData(station, shape)
  <1>1. Query(blob, escaped) = blob
    BY OwnBlob
  <1>2. DecodeStationData(blob) = Marshal(station)
    BY OwnBlob DEF DecodeStationData, Encodings
  <1>3. Marshal(station).stream # Empty
    BY DEF Marshal
  <1> QED
    BY <1>1, <1>2, <1>3 DEF HandleStation

\* So is it for a blob minted with any of the four encodings, if its '+' was
\* escaped on the way (encoding.go:32-34).
THEOREM EscapedBlobsPlay ==
  ASSUME NEW station, NEW shape \in Shapes, NEW enc \in Encodings,
         Sanitize(station.stream) # Empty,
         Marshal(station) # Nil, Encode(enc, Marshal(station), shape) # Nil
  PROVE  HandleStation(Query(Encode(enc, Marshal(station), shape), TRUE))
           = [status |-> 200, playback |-> Marshal(station)]
  <1> DEFINE blob == Encode(enc, Marshal(station), shape)
  <1>1. /\ blob.chars = {enc.chars[x] : x \in shape.sextets}
        /\ blob.payload = Marshal(station)
        /\ blob.rem = shape.rem
        /\ blob.padding = Padding(enc, shape.rem)
    BY DEF Encode
  <1>2. DOMAIN enc.chars = {62, 63}
    <2>1. enc.chars = URLChars \/ enc.chars = StdChars
      BY TwoAlphabets
    <2> QED
      BY <2>1, Alphabets
  <1>3. shape.sextets \subseteq {62, 63}
    BY DEF Shapes
  <1>4. blob.chars \subseteq Range(enc.chars)
    <2>1. ASSUME NEW c \in blob.chars
          PROVE  c \in Range(enc.chars)
      <3>1. PICK x \in shape.sextets : c = enc.chars[x]
        BY <1>1
      <3>2. x \in DOMAIN enc.chars
        BY <1>2, <1>3
      <3> QED
        BY <3>1, <3>2, Zenon DEF Range
    <2> QED
      BY <2>1
  <1>5. Decodes(enc, blob)
    BY <1>1, <1>4 DEF Decodes
  <1>6. Query(blob, TRUE) = blob
    BY DEF Query
  <1>7. Marshal(station).stream # Empty
    BY DEF Marshal
  <1> HIDE DEF blob
  <1>8. DecodeStationData(blob) = Marshal(station)
    BY <1>1, <1>5 DEF DecodeStationData
  <1> QED
    BY <1>6, <1>7, <1>8 DEF HandleStation, blob

-----------------------------------------------------------------------------
(* The routes a press takes.                                               *)

LEMMA Routes ==
  ASSUME NEW base, NEW arg
  PROVE  /\ Get(base, <<"sourceproviders">>, arg) = HandleSourceProviders(arg)
         /\ Get(base, <<"services">>, arg) = HandleBMXRegistry(base)
         /\ Get(base, <<Orion, "token">>, arg) = [status |-> 200, token |-> Token]
         /\ Get(base, StationPath, arg) = HandleStation(arg)
  <1>1. Get(base, <<"sourceproviders">>, arg) = HandleSourceProviders(arg)
    <2>1. "sourceproviders" \notin DOMAIN Stubs
      BY DEF Stubs
    <2> QED
      BY <2>1 DEF Get, Orion, StationPath
  <1>2. Get(base, <<"services">>, arg) = HandleBMXRegistry(base)
    <2>1. "services" \notin DOMAIN Stubs
      BY DEF Stubs
    <2> QED
      BY <2>1 DEF Get, Orion, StationPath
  <1>3. Get(base, <<Orion, "token">>, arg) = [status |-> 200, token |-> Token]
    BY DEF Get, Orion, StationPath
  <1>4. Get(base, StationPath, arg) = HandleStation(arg)
    BY DEF Get, Orion, StationPath
  <1> QED
    BY <1>1, <1>2, <1>3, <1>4

\* A press: the catalog, fetched or known, has the source, the registry has
\* its adapter, the adapter hands out a token, and the location, whose blob
\* the speaker does not escape, is answered with the station (bmx.go:11-21,
\* marge.go:11-16).
THEOREM PressPlays ==
  ASSUME NEW base, NEW station, NEW shape \in Shapes,
         NEW known \in {Nil, SourceProviders},
         Sanitize(station.stream) # Empty,
         Marshal(station) # Nil, EncodeStationData(station, shape) # Nil
  PROVE  Press(base, PresetOf(base, station, shape), known)
           = [status |-> 200, playback |-> Marshal(station)]
  <1> DEFINE preset   == PresetOf(base, station, shape)
             reply    == Get(base, <<"sourceproviders">>, known)
             catalog  == IF reply.status = 304 THEN known ELSE reply.providers
             adapters == {s \in Get(base, <<"services">>, Nil).services :
                            s.name = preset.source}
             service  == [name |-> LocalRadio, base |-> base,
                          path |-> Orion, token |-> "token"]
  <1>1. /\ preset.source = LocalRadio /\ preset.provider = 11
        /\ preset.base = base /\ preset.path = StationPath
        /\ preset.data = EncodeStationData(station, shape)
    BY DEF PresetOf
  <1> HIDE DEF preset
  <1>2. catalog = SourceProviders
    <2>1. reply = HandleSourceProviders(known)
      BY Routes
    <2> HIDE DEF reply
    <2>2. CASE known = SourceProviders
      BY <2>1, <2>2 DEF HandleSourceProviders
    <2>3. CASE known # SourceProviders
      BY <2>1, <2>3 DEF HandleSourceProviders
    <2> QED
      BY <2>2, <2>3
  <1>3. service \in adapters
    <2>1. Get(base, <<"services">>, Nil) = [status |-> 200, services |-> Registry(base)]
      BY Routes DEF HandleBMXRegistry
    <2>2. Get(base, <<"services">>, Nil).services = Registry(base)
      BY <2>1
    <2>3. service \in Registry(base)
      BY DEF Registry
    <2> QED
      BY <1>1, <2>2, <2>3
  <1>4. Get(service.base, <<service.path, service.token>>, Nil).status = 200
    BY Routes
  <1>5. [id |-> preset.provider, name |-> preset.source] \in SourceProviders
    BY <1>1 DEF SourceProviders
  <1>6. Get(preset.base, preset.path, Query(preset.data, FALSE))
          = [status |-> 200, playback |-> Marshal(station)]
    <2>1. HandleStation(Query(EncodeStationData(station, shape), FALSE))
            = [status |-> 200, playback |-> Marshal(station)]
      BY OwnBlobsPlay
    <2> QED
      BY <1>1, <2>1, Routes
  <1> HIDE DEF service
  <1>7. \E s \in adapters : Get(s.base, <<s.path, s.token>>, Nil).status = 200
    BY <1>3, <1>4
  <1>8. Press(base, preset, known)
          = IF /\ [id |-> preset.provider, name |-> preset.source] \in catalog
               /\ \E s \in adapters : Get(s.base, <<s.path, s.token>>, Nil).status = 200
            THEN Get(preset.base, preset.path, Query(preset.data, FALSE))
            ELSE [status |-> "INVALID_SOURCE"]
    BY Zenon DEF Press
  <1> HIDE DEF catalog, adapters
  <1>9. Press(base, preset, known) = [status |-> 200, playback |-> Marshal(station)]
    BY <1>2, <1>5, <1>6, <1>7, <1>8
  <1> QED
    BY <1>9 DEF preset

-----------------------------------------------------------------------------
(* Blobs of others.                                                        *)

\* A space is in no alphabet: a '+' that was not escaped is refused.
LEMMA SpacesAreRefused ==
  ASSUME NEW blob, " " \in blob.chars
  PROVE  HandleStation(blob) = BadRequest
  <1>1. ASSUME NEW enc \in Encodings
        PROVE  ~Decodes(enc, blob)
    <2>1. enc.chars = URLChars \/ enc.chars = StdChars
      BY TwoAlphabets
    <2>2. " " \notin Range(URLChars) /\ " " \notin Range(StdChars)
      <3>1. /\ Range(URLChars) = {URLChars[x] : x \in {62, 63}}
            /\ Range(StdChars) = {StdChars[x] : x \in {62, 63}}
        BY Alphabets, Zenon DEF Range
      <3> QED
        BY <3>1, Alphabets
    <2> QED
      BY <2>1, <2>2 DEF Decodes
  <1>2. DecodeStationData(blob) = Nil
    BY <1>1 DEF DecodeStationData
  <1> QED
    BY <1>2 DEF HandleStation

\* A blob minted with any of the four encodings plays its station, or is
\* refused: without a stream, or with a '+' that was not escaped
\* (encoding.go:32-34).
THEOREM AnyBlobPlays ==
  ASSUME NEW station, NEW shape \in Shapes, NEW enc \in Encodings,
         NEW escaped \in BOOLEAN,
         Marshal(station) # Nil, Encode(enc, Marshal(station), shape) # Nil
  PROVE  LET blob == Encode(enc, Marshal(station), shape)
         IN  HandleStation(Query(blob, escaped)) =
               IF Marshal(station).stream = Empty \/ ("+" \in blob.chars /\ ~escaped)
                 THEN BadRequest
                 ELSE [status |-> 200, playback |-> Marshal(station)]
  <1> DEFINE blob == Encode(enc, Marshal(station), shape)
             query == Query(blob, escaped)
  <1>1. Marshal(station).stream = Sanitize(station.stream)
    BY DEF Marshal
  <1>2. /\ blob = [payload |-> Marshal(station), rem |-> shape.rem,
                   chars |-> blob.chars, padding |-> Padding(enc, shape.rem)]
        /\ blob.payload = Marshal(station)
    BY DEF Encode
  <1>3. CASE Marshal(station).stream = Empty
    <2>1. query.payload = Marshal(station)
      <3> HIDE DEF blob
      <3> QED
        BY <1>2 DEF Query
    <2>2. DecodeStationData(query) \in {Marshal(station), Nil}
      BY <2>1 DEF DecodeStationData
    <2> HIDE DEF query
    <2>3. HandleStation(query) = BadRequest
      BY <1>3, <2>2 DEF HandleStation
    <2> QED
      BY <1>3, <2>3 DEF query
  <1>4. CASE Marshal(station).stream # Empty /\ "+" \in blob.chars /\ ~escaped
    <2>1. " " \in query.chars
      <3> HIDE DEF blob
      <3>1. query = [blob EXCEPT !.chars = {IF c = "+" THEN " " ELSE c : c \in blob.chars}]
        BY <1>4 DEF Query
      <3>2. query.chars = {IF c = "+" THEN " " ELSE c : c \in blob.chars}
        BY <1>2, <3>1
      <3> QED
        BY <1>4, <3>2
    <2>2. HandleStation(query) = BadRequest
      BY <2>1, SpacesAreRefused
    <2> QED
      BY <1>4, <2>2
  <1>5. CASE Marshal(station).stream # Empty /\ ("+" \notin blob.chars \/ escaped)
    <2>1. query = blob
      <3> HIDE DEF blob
      <3>1. CASE escaped
        BY <3>1 DEF Query
      <3>2. CASE ~escaped /\ "+" \notin blob.chars
        <4>1. {IF c = "+" THEN " " ELSE c : c \in blob.chars} = blob.chars
          BY <3>2
        <4>2. query = [blob EXCEPT !.chars = blob.chars]
          BY <3>2, <4>1 DEF Query
        <4> QED
          BY <1>2, <4>2
      <3> QED
        BY <1>5, <3>1, <3>2
    <2>2. HandleStation(Query(blob, TRUE)) = [status |-> 200, playback |-> Marshal(station)]
      BY <1>1, <1>5, EscapedBlobsPlay
    <2>3. Query(blob, TRUE) = blob
      BY DEF Query
    <2> QED
      BY <1>5, <2>1, <2>2, <2>3
  <1> QED
    BY <1>3, <1>4, <1>5

=============================================================================
