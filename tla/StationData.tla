---------------------------- MODULE StationData ----------------------------
(***************************************************************************)
(* What happens between a press of a button and its stream: the location   *)
(* of a preset (encoding.go), the registry, the catalog and the stubs that *)
(* the speaker wants to see first (bmx.go, marge.go), the routes           *)
(* (Server.Handler) and the station endpoint (handleStation).              *)
(*                                                                         *)
(* Everything here is a function of the request and the base URL.  Of the  *)
(* base64 text of a JSON payload only that is kept which its decoding and  *)
(* the query string depend on: the payload, its length modulo 3, which of  *)
(* the two characters that differ between the alphabets occur, and how     *)
(* many '='.                                                               *)
(***************************************************************************)
EXTENDS Values, Naturals, Sequences, Functions

CONSTANT Sanitize(_)  \* json.Marshal: U+FFFD for what is not UTF-8

NotFound == [status |-> 404]
BadRequest == [status |-> 400]

-----------------------------------------------------------------------------
(* Blobs.                                                                  *)

\* The length of a payload modulo 3, and the sextets 62 and 63 if it has them.
Shapes == [rem : 0..2, sextets : SUBSET {62, 63}]

URLChars == [x \in {62, 63} |-> IF x = 62 THEN "-" ELSE "_"]
StdChars == [x \in {62, 63} |-> IF x = 62 THEN "+" ELSE "/"]

RawURLEncoding == [chars |-> URLChars, pads |-> FALSE]
URLEncoding    == [chars |-> URLChars, pads |-> TRUE]
RawStdEncoding == [chars |-> StdChars, pads |-> FALSE]
StdEncoding    == [chars |-> StdChars, pads |-> TRUE]

Encodings == {RawURLEncoding, URLEncoding, RawStdEncoding, StdEncoding}

\* The number of '=' after a payload of a length that is rem modulo 3.
Padding(enc, rem) == IF enc.pads THEN (3 - rem) % 3 ELSE 0

Encode(enc, payload, shape) ==
  [payload |-> payload,
   rem     |-> shape.rem,
   chars   |-> {enc.chars[x] : x \in shape.sextets},
   padding |-> Padding(enc, shape.rem)]

\* enc.DecodeString accepts the text.
Decodes(enc, blob) ==
  /\ blob.chars \subseteq Range(enc.chars)
  /\ blob.padding = Padding(enc, blob.rem)

\* The payload of a station, and the station its payload is read as.
Marshal(station) ==
  [name   |-> Sanitize(station.name),
   stream |-> Sanitize(station.stream),
   image  |-> Sanitize(station.image)]

EncodeStationDataPlus(station, shape) ==
  Encode(RawStdEncoding, Marshal(station), shape)
EncodeStationData(station, shape) ==
  Encode(RawURLEncoding, Marshal(station), shape)

\* The first encoding that accepts the text decides: they agree on the bytes.
DecodeUnpadded(blob) ==
  IF \E enc \in {RawURLEncoding, RawStdEncoding} : Decodes(enc, blob)
    THEN blob.payload ELSE Nil
DecodeStationData(blob) ==
  IF \E enc \in Encodings : Decodes(enc, blob) THEN blob.payload ELSE Nil

\* url.ParseQuery: a '+' that was not escaped is a space.
Query(blob, escaped) ==
  IF escaped THEN blob
  ELSE [blob EXCEPT !.chars = {IF c = "+" THEN " " ELSE c : c \in @}]

HandleStation(data) ==
  IF data = Nil \/ DecodeStationData(data) = Nil THEN BadRequest
  ELSE IF DecodeStationData(data).stream = Empty THEN BadRequest
  ELSE [status |-> 200, playback |-> DecodeStationData(data)]

-----------------------------------------------------------------------------
(* Routes.                                                                 *)

LocalRadio == "LOCAL_INTERNET_RADIO"
Orion == "orion"
StationPath == <<Orion, "station">>

\* staticProviders, without the providers no preset refers to.
SourceProviders == {[id |-> 10, name |-> "RECOMMENDED_INTERNET_RADIO"],
                    [id |-> 11, name |-> LocalRadio],
                    [id |-> 12, name |-> "GLOBAL_INTERNET_RADIO"]}

\* The registry, and the availability list, name the one service there is.
Registry(base) ==
  {[name |-> LocalRadio, base |-> base, path |-> Orion, token |-> "token"]}
Availability == {LocalRadio}

\* applyBMXTemplate puts the base URL in.
HandleBMXRegistry(base) == [status |-> 200, services |-> Registry(base)]

\* handleSourceProviders: the catalog never changes, and nor does its ETag.
HandleSourceProviders(tag) ==
  IF tag = SourceProviders THEN [status |-> 304]
  ELSE [status |-> 200, providers |-> SourceProviders, tag |-> SourceProviders]

\* Handlers that answer every request alike.
Stubs == [power_on |-> 200, blacklist |-> 405, streaming_token |-> 200,
          provider_settings |-> 200, group |-> 200, scmudc |-> 200,
          media |-> 200, healthz |-> 200]

Token == "anonymous"

\* The answer to a request for path of the service at base; arg is its
\* parameter or its If-None-Match.
Get(base, path, arg) ==
  CASE path = <<"sourceproviders">> -> HandleSourceProviders(arg)
    [] path = <<"services">> -> HandleBMXRegistry(base)
    [] path = <<"servicesAvailability">> ->
         [status |-> 200, services |-> Availability]
    [] path = <<Orion>> -> HandleBMXRegistry(base)
    [] path = <<Orion, "token">> -> [status |-> 200, token |-> Token]
    [] path = StationPath -> HandleStation(arg)
    [] Len(path) = 1 /\ path[1] \in DOMAIN Stubs -> [status |-> Stubs[path[1]]]
    [] OTHER -> NotFound

-----------------------------------------------------------------------------
(* The speaker.                                                            *)

\* fullPreset: what /full says of a button.
PresetOf(base, station, shape) ==
  [source   |-> LocalRadio,
   provider |-> 11,
   base     |-> base,
   path     |-> StationPath,
   data     |-> EncodeStationData(station, shape)]

\* A press: the source must be in the catalog and in the registry, the
\* registry's adapter hands out a token, and the location is then followed
\* (bmx.go:11-21, marge.go:11-16).  known is the catalog the speaker has from
\* an earlier boot, or Nil.
Press(base, preset, known) ==
  LET reply    == Get(base, <<"sourceproviders">>, known)
      catalog  == IF reply.status = 304 THEN known ELSE reply.providers
      adapters == {s \in Get(base, <<"services">>, Nil).services :
                     s.name = preset.source}
  IN  IF /\ [id |-> preset.provider, name |-> preset.source] \in catalog
         /\ \E s \in adapters :
              Get(s.base, <<s.path, s.token>>, Nil).status = 200
      THEN Get(preset.base, preset.path, Query(preset.data, FALSE))
      ELSE [status |-> "INVALID_SOURCE"]

=============================================================================
