----------------------------- MODULE ConfigFile -----------------------------
(***************************************************************************)
(* presets.conf and the configuration it stands for: ParseConfig,          *)
(* validateStreamURL and Fingerprint of internal/preset/config.go.         *)
(*                                                                         *)
(* A file is the sequence of its lines after trimming.  A line is blank, a *)
(* comment, longer than bufio.Scanner accepts, or the sequence of its      *)
(* '|'-separated, trimmed fields.  A field is a text, Empty included.      *)
(***************************************************************************)
EXTENDS Values, Naturals, FiniteSets, Sequences, SequencesExt

CONSTANTS
  MaxPresets,  \* physical buttons
  Texts,       \* what a field can contain
  ValidURLs,   \* texts validateStreamURL accepts
  Shorter      \* pairs <<t, u>>: text t cut short can be u

ASSUME MaxPresetsAssumption == MaxPresets \in Nat \ {0}
ASSUME TextsAssumption ==
  /\ Empty \in Texts
  /\ ValidURLs \subseteq Texts \ {Empty}
  /\ Shorter \subseteq Texts \X Texts

\* A field is what stands between separators, and a line between line feeds.
ASSUME SeparatorsAssumption == "|" \notin Texts /\ "\n" \notin Texts

Blank == [kind |-> "blank"]
Comment == [kind |-> "comment"]
TooLong == [kind |-> "too long"]
Fields(fs) == [kind |-> "fields", fields |-> fs]

Line(l) ==
  \/ l \in {Blank, Comment, TooLong}
  \/ l = Fields(l.fields) /\ l.fields \in Seq(Texts)

Station == [name : Texts \ {Empty}, stream : ValidURLs, image : Texts]

\* A nil *Config is not one with stations.
ASSUME ConfigNilAssumption ==
  \A n \in 0..MaxPresets : Nil \notin [1..n -> Station]

Ignored(line) == line \in {Blank, Comment}

\* validateStreamURL: it parses, is http or https, and has a host.
ValidateUnchecked(text) == text # Empty
ValidateStreamURL(text) == text \in ValidURLs

WellFormed(line) ==
  /\ line.kind = "fields"
  /\ Len(line.fields) >= 2
  /\ line.fields[1] # Empty
  /\ ValidateStreamURL(line.fields[2])

\* Fields after the third are dropped.
StationOf(line) ==
  [name   |-> line.fields[1],
   stream |-> line.fields[2],
   image  |-> IF Len(line.fields) >= 3 THEN line.fields[3] ELSE Empty]

\* One turn of the scanner loop; Nil once an error was returned.
ParseLineOffByOne(stations, line) ==
  IF stations = Nil \/ Ignored(line) THEN stations
  ELSE IF WellFormed(line) /\ Len(stations) <= MaxPresets
    THEN Append(stations, StationOf(line))
    ELSE Nil
ParseLineDropsFirst(stations, line) ==
  IF stations = Nil \/ Ignored(line) THEN stations
  ELSE IF WellFormed(line)
    THEN LET all == Append(stations, StationOf(line))
         IN  IF Len(all) > MaxPresets THEN Tail(all) ELSE all
    ELSE Nil
ParseLine(stations, line) ==
  IF stations = Nil \/ Ignored(line) THEN stations
  ELSE IF WellFormed(line) /\ Len(stations) < MaxPresets
    THEN Append(stations, StationOf(line))
    ELSE Nil

\* What has been parsed after n lines.
Scan(file) ==
  LET scan[n \in 0..Len(file)] ==
        IF n = 0 THEN << >> ELSE ParseLine(scan[n - 1], file[n])
  IN  scan

ParseConfig(file) ==
  LET stations == Scan(file)[Len(file)]
  IN  IF stations = << >> THEN Nil ELSE stations

\* The texts of a station, each with the separator that follows it.
StationTextNoSeparators(s) ==
  SelectSeq(<<s.name, s.stream, s.image>>, LAMBDA t : t # Empty)
StationText(s) ==
  <<s.name, "|", s.stream, "|">>
    \o (IF s.image = Empty THEN << >> ELSE <<s.image>>)
    \o <<"\n">>

\* What has been written to the hash after n stations, and after all.
Written(c) ==
  LET text[n \in 0..Len(c)] ==
        IF n = 0 THEN << >> ELSE text[n - 1] \o StationText(c[n])
  IN  text
Fingerprint(c) == Written(c)[Len(c)]

-----------------------------------------------------------------------------
(* What the comments of config.go promise about a file (config.go:44-50).  *)

\* The number of stations in the first n lines: a station in line n is for
\* this button.
Button(file, n) == Cardinality({i \in 1..n : ~Ignored(file[i])})

Acceptable(file) ==
  /\ Button(file, Len(file)) \in 1..MaxPresets
  /\ \A i \in 1..Len(file) : Ignored(file[i]) \/ WellFormed(file[i])

\* Button order is line order, and a file with anything wrong in it, no
\* station or too many, is rejected as a whole (config.go:45-50, 86-91).
ParsesAsDocumented(file) ==
  IF Acceptable(file)
    THEN /\ ParseConfig(file) # Nil
         /\ Len(ParseConfig(file)) = Button(file, Len(file))
         /\ \A i \in 1..Len(file) :
              Ignored(file[i])
                \/ ParseConfig(file)[Button(file, i)] = StationOf(file[i])
    ELSE ParseConfig(file) = Nil

\* What the server serves is always well formed: at least one and at most
\* MaxPresets stations, each with a name and a usable stream URL.
YieldsStations(file) ==
  ParseConfig(file) # Nil =>
    /\ ParseConfig(file) \in Seq(Station)
    /\ Len(ParseConfig(file)) \in 1..MaxPresets

\* What a write of file that is cut short, or a stick that is pulled too
\* early, leaves: whole lines and then perhaps the beginning of one.
CutLines(line) ==
  IF line.kind # "fields" THEN {}
  ELSE UNION {{Fields(Append(SubSeq(line.fields, 1, n - 1), cut[2])) :
                  cut \in {p \in Shorter : p[1] = line.fields[n]}} :
                n \in 1..Len(line.fields)}

CutFiles(file) ==
  UNION {{SubSeq(file, 1, n)}
         \cup {Append(SubSeq(file, 1, n), l) : l \in CutLines(file[n + 1])} :
           n \in 0..(Len(file) - 1)}

\* A cut never shifts a button: what is left, if it parses, agrees with the
\* whole file on every button but its last one.  (The last one may play a
\* URL that was cut short, and the buttons after it are lost.)
CutKeepsButtons(file) ==
  \A cut \in CutFiles(file) :
    ParseConfig(file) # Nil /\ ParseConfig(cut) # Nil
      => IsPrefix(Front(ParseConfig(cut)), ParseConfig(file))

=============================================================================
