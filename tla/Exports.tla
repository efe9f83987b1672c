------------------------------ MODULE Exports ------------------------------
(***************************************************************************)
(* Listening-history exports: what detect_format makes of a file and what  *)
(* the three parsers make of its rows (imports/parsers.py).                *)
(*                                                                         *)
(* A file is a JSON array of rows, the same "wrapped" in the answer of     *)
(* ListenBrainz, any other JSON "object", or a CSV.  `exact` says whether  *)
(* its times have seconds: those of ListenBrainz and of Spotify's extended *)
(* history do, those of its older files and of most from Last.fm have      *)
(* minutes only.  Of a JSON row only the fields a parser looks at are      *)
(* kept; a CSV row is the sequence of its cells.  Missing stands for a     *)
(* field that is absent, null or, where the parser drops it, blank         *)
(* (parse_spotify_gdpr keeps a blank name, which matches nothing in the    *)
(* catalogue); the rows of an "object" are its lines, which are "other" to *)
(* every parser.                                                           *)
(***************************************************************************)
EXTENDS Integers, SequencesExt

CONSTANTS
  Missing,
  Names,        \* artist names and titles, as exports spell them
  Times,        \* times that can be parsed,
  Minute,       \*   and the minute each is in
  MinPlayed,    \* DEFAULT_MIN_MS_PLAYED
  MaxRows,      \* MAX_ROWS
  HeadRows      \* the rows within the 8192 bytes that detect_format looks at

ASSUME MissingAssumption == Missing \notin Names \cup Times
ASSUME TimesAssumption == Minute \in [Times -> Times]
ASSUME LimitsAssumption == MinPlayed \in Nat /\ MaxRows \in Nat /\ HeadRows \in Nat

Formats == {"spotify_gdpr", "listenbrainz", "lastfm_csv"}
IsJson(f) == f.kind # "csv"
First(n, rows) == [i \in (1..n) \cap DOMAIN rows |-> rows[i]]

\* detect_format
Detect(f) ==
  LET Seen(format) == \E i \in DOMAIN First(HeadRows, f.rows) : f.rows[i].of = format IN
  IF f.rows = <<>> THEN "unknown"
  ELSE IF ~IsJson(f) THEN IF Len(f.rows[1]) > 1 THEN "lastfm_csv" ELSE "unknown"
  ELSE IF Seen("listenbrainz") THEN "listenbrainz"
  ELSE IF Seen("spotify_gdpr") THEN "spotify_gdpr"
  ELSE "unknown"

\* What becomes of a row: a listen, or nothing but a count for the reader.
\* played (history): when the play was, which the export may tell less exactly.
Listen(artist, track, at, mbid) ==
  [to |-> "listens", artist |-> artist, track |-> track, at |-> at, played |-> at, mbid |-> mbid]
Skip == [to |-> "skipped"]

\* parse_spotify_gdpr; `played` is a number, or -1 where the file has none.
\* A podcast has no track, a row of another export none of the fields.
SpotifyRow(r) ==
  IF /\ r.of = "spotify_gdpr"
     /\ Missing \notin {r.artist, r.track}
     /\ r.at \in Times
     /\ r.played \notin 0..(MinPlayed - 1)
  THEN Listen(r.artist, r.track, r.at, Missing)
  ELSE Skip

\* parse_listenbrainz
ListenBrainzRow(r) ==
  IF /\ r.of = "listenbrainz"
     /\ Missing \notin {r.artist, r.track}
     /\ r.at \in Times
  THEN Listen(r.artist, r.track, r.at, r.mbid)
  ELSE Skip

\* _listenbrainz_rows: whatever is not an object is passed over.
ListenBrainzRows(f) ==
  IF f.kind = "object" THEN <<>> ELSE SelectSeq(f.rows, LAMBDA r : r.of # "other")

\* parse_lastfm_csv takes the columns from the header, or the usual order.
HasHeader(f) ==
  \A field \in {"artist", "track"} : \E i \in DOMAIN f.rows[1] :
    \A j \in DOMAIN f.rows[1] : f.rows[1][j] = field <=> j = i
Columns(f) == IF HasHeader(f) THEN f.rows[1] ELSE <<"artist", "album", "track", "when">>

LastfmRow(columns, row) ==
  LET Cell(field) ==
        LET at == SelectInSeq(columns, LAMBDA c : c = field) IN
        IF at \in DOMAIN row THEN row[at] ELSE Missing IN
  IF Missing \in {Cell("artist"), Cell("track")} \/ Cell("when") \notin Times
  THEN Skip
  ELSE Listen(Cell("artist"), Cell("track"), Cell("when"), Missing)

\* UnknownFormatError
Unreadable(f, format) ==
  \/ format = "spotify_gdpr" /\ f.kind # "array"
  \/ format = "listenbrainz" /\ ~IsJson(f)
  \/ format = "lastfm_csv" /\ ~IsJson(f) /\ f.rows = <<>>

\* The rows a parser goes through.  To the CSV reader, JSON is rows without
\* a date where it looks.
RowsOf(f, format) ==
  CASE format = "listenbrainz" -> ListenBrainzRows(f)
    [] format = "lastfm_csv" /\ ~IsJson(f) /\ HasHeader(f) -> Tail(f.rows)
    [] OTHER -> f.rows

Outcome(f, format, row) ==
  CASE format = "spotify_gdpr" -> SpotifyRow(row)
    [] format = "listenbrainz" -> ListenBrainzRow(row)
    [] format = "lastfm_csv" -> IF IsJson(f) THEN Skip ELSE LastfmRow(Columns(f), row)

\* _parse_spotify_timestamp, _parse_lastfm_date: a time without seconds is
\* parsed to the start of its minute.
Timed(f, outcome) ==
  IF outcome.to = "listens" /\ ~f.exact THEN [outcome EXCEPT !.at = Minute[@]] ELSE outcome

\* parse
Parse(f, format) ==
  LET rows == First(MaxRows, RowsOf(f, format)) IN
  [i \in DOMAIN rows |-> Timed(f, Outcome(f, format, rows[i]))]

\* The places of the listens in what was parsed.
Listens(parsed) == {i \in DOMAIN parsed : parsed[i].to = "listens"}
=============================================================================
