------------------------------- MODULE Answer --------------------------------
(***************************************************************************)
(* The result of a query on its way to the client: the page, CSV or JSON   *)
(* made of it (utils.go, CheckApply, package uirules), written line by     *)
(* line and perhaps compressed (writeResponse), over a connection that may *)
(* break, to the Go client that decodes it (client.go).                    *)
(*                                                                         *)
(* A value is named by the class of its text: "json" is valid JSON with    *)
(* one of the characters ,:[]{} in it, "badurl" looks like a URL but does  *)
(* not parse, "blob" is bytes that are no text, "nan" a number JSON does   *)
(* not have.                                                               *)
(***************************************************************************)
EXTENDS Naturals, Sequences, FiniteSetsExt

CONSTANTS
  Layouts,  \* the sequences of column names a result may have
  Values,   \* the values that may occur in it
  Rules,    \* Options.UIRewriteRules, by name, in order
  MaxCells  \* bound: the values of a result

AllValues == {"null", "empty", "word", "sql", "json", "url", "badurl", "stripe",
              "time", "blob", "nan"}
RuleNames == {"blot", "stripe", "sql", "json", "url"}
ASSUME LayoutsAssumption == Layouts \subseteq Seq(STRING)
ASSUME ValuesAssumption == Values \subseteq AllValues /\ MaxCells \in Nat
ASSUME RulesAssumption == Rules \in Seq(RuleNames)

VARIABLES
  route,   \* the path of the request
  zstd,    \* the request accepts compression
  cols,    \* dbResult.Columns
  rows,    \* dbResult.Rows
  page,    \* the table of the UI
  left,    \* the lines still to be written
  buffer,  \* the lines inside the compressor
  wire,    \* the lines that were sent
  code,    \* the status that was sent, 0 while there is none
  server,  \* the handler: "render", "write", "ended" or, with the text of an
           \* error after the lines, "torn"; "cut" if the connection broke
  got,     \* the lines the client has read
  client   \* the client: "reads", "ok" or "error"

result == <<route, zstd, cols, rows>>
vars == <<result, page, left, buffer, wire, code, server, got, client>>

TypeOK ==
  /\ \/ page = <<>>
     \/ DOMAIN page = DOMAIN rows /\ \A i \in DOMAIN page : DOMAIN page[i] = DOMAIN cols
  /\ code \in {0, 200, 500} /\ (wire # <<>> => code = 200)
  /\ server \in {"render", "write", "ended", "torn", "cut"}
  /\ client \in {"reads", "ok", "error"}
  /\ Len(got) <= Len(wire) /\ got = SubSeq(wire, 1, Len(got))

Init ==
  /\ route \in {"/", "/csv", "/json"}
  /\ zstd \in BOOLEAN
  /\ cols \in Layouts
  /\ \E n \in 0..MaxCells :
       /\ n * Len(cols) <= MaxCells
       /\ rows \in [1..n -> [DOMAIN cols -> Values]]
  /\ page = <<>> /\ left = <<>> /\ buffer = <<>> /\ wire = <<>>
  /\ code = 0 /\ server = "render" /\ got = <<>> /\ client = "reads"
-----------------------------------------------------------------------------
(* Values as text, and the rewrite rules of the UI.                        *)

\* valueToString; a time is one text whatever its hour.
Text(v, null) ==
  CASE v = "null" -> null
    [] v = "empty" -> ""
    [] v = "blob" -> "base64"
    [] OTHER -> v

\* The regexps of a rule: "blot" is the example of README.md:190-198, the
\* others are those of package uirules.
Matches(rule, column, text) ==
  CASE rule = "blot" -> column = "password"
    [] rule = "stripe" -> text = "stripe"
    [] rule = "sql" -> text = "sql"
    [] rule = "json" -> text \in {"json", "url", "badurl", "time", "(null)"}
    [] rule = "url" -> text \in {"url", "badurl"}

\* What Apply makes of a text.
Apply(rule, text) ==
  CASE rule = "blot" -> "<redacted-password>"
    [] rule = "stripe" -> "link"
    [] rule = "sql" -> "code"
    [] rule = "json" -> IF text = "json" THEN "tt" ELSE "nil"
    [] rule = "url" -> IF text = "url" THEN "link" ELSE text

(* Mutant of CheckApply: nil is a value like any other.                    *)
CheckApplyNil(rule, column, text) == Matches(rule, column, text)

\* CheckApply: a rule that returns nil has not matched.
CheckApply(rule, column, text) ==
  Matches(rule, column, text) /\ Apply(rule, text) # "nil"

(* Mutant of Rewrite: the rules after the first one are tried as well.     *)
RewriteLast(column, text) ==
  LET hits == {i \in DOMAIN Rules : CheckApply(Rules[i], column, text)}
  IN  IF hits = {} THEN text ELSE Apply(Rules[Max(hits)], text)

\* The inner loop of uiOutput.
Rewrite(column, text) ==
  LET hits == {i \in DOMAIN Rules : CheckApply(Rules[i], column, text)}
  IN  IF hits = {} THEN text ELSE Apply(Rules[Min(hits)], text)

uiOutput == [i \in DOMAIN rows |-> [j \in DOMAIN cols |->
               Rewrite(cols[j], Text(rows[i][j], "(null)"))]]

csvOutput == IF cols = <<>> THEN <<>>
             ELSE <<cols>> \o [i \in DOMAIN rows |-> [j \in DOMAIN cols |->
                                 Text(rows[i][j], "")]]

\* A row of queryContextJSON: of columns with one name the last one stays.
JSONRow(row) ==
  [c \in {cols[j] : j \in DOMAIN cols} |->
     LET v == row[Max({j \in DOMAIN cols : cols[j] = c})]
     IN  IF v = "blob" THEN "base64" ELSE v]
-----------------------------------------------------------------------------
(* The handler.                                                            *)

Render ==
  /\ server = "render"
  /\ page' = IF route = "/" THEN uiOutput ELSE <<>>
  /\ left' = CASE route = "/" -> <<"page">>
               [] route = "/csv" -> csvOutput
               [] route = "/json" -> [i \in DOMAIN rows |-> JSONRow(rows[i])]
  /\ server' = "write"
  /\ UNCHANGED <<result, buffer, wire, code, got, client>>

Compressed == zstd /\ route # "/"

Encodable(line) == route = "/json" => \A c \in DOMAIN line : line[c] # "nan"

Send(lines) ==
  /\ wire' = wire \o lines
  /\ code' = IF lines = <<>> THEN code ELSE 200

WriteLine ==
  /\ server = "write" /\ left # <<>> /\ Encodable(Head(left))
  /\ left' = Tail(left)
  /\ IF Compressed THEN buffer' = Append(buffer, Head(left)) /\ UNCHANGED <<wire, code>>
     ELSE Send(<<Head(left)>>) /\ UNCHANGED buffer
  /\ UNCHANGED <<result, page, server, got, client>>

\* The compressor has a block.
Flush ==
  /\ server = "write" /\ buffer # <<>>
  /\ Send(buffer) /\ buffer' = <<>>
  /\ UNCHANGED <<result, page, left, server, got, client>>

(* Mutant of FailLine: the status of the error is sent whatever was before.*)
FailLineStatus ==
  /\ server = "write" /\ left # <<>> /\ ~Encodable(Head(left))
  /\ wire' = wire \o buffer /\ code' = 500
  /\ buffer' = <<>> /\ server' = "ended"
  /\ UNCHANGED <<result, page, left, got, client>>

(* Mutant of FailLine: rows that cannot be encoded are left out.           *)
FailLineSkips ==
  /\ server = "write" /\ left # <<>> /\ ~Encodable(Head(left))
  /\ left' = Tail(left)
  /\ UNCHANGED <<result, page, buffer, wire, code, server, got, client>>

\* Encode fails: the compressor is closed, and serveUI answers with an error,
\* or appends its text to the lines that were sent.
FailLine ==
  /\ server = "write" /\ left # <<>> /\ ~Encodable(Head(left))
  /\ IF wire \o buffer = <<>>
     THEN code' = 500 /\ server' = "ended" /\ UNCHANGED wire
     ELSE Send(buffer) /\ server' = "torn"
  /\ buffer' = <<>>
  /\ UNCHANGED <<result, page, left, got, client>>

(* Mutant of EndLines: the compressor is not closed.                       *)
EndLinesOpen ==
  /\ server = "write" /\ left = <<>>
  /\ code' = 200 /\ server' = "ended"
  /\ UNCHANGED <<result, page, left, buffer, wire, got, client>>

EndLines ==
  /\ server = "write" /\ left = <<>>
  /\ wire' = wire \o buffer /\ code' = 200
  /\ buffer' = <<>> /\ server' = "ended"
  /\ UNCHANGED <<result, page, left, got, client>>

\* The connection breaks; lines on their way are lost.
Break ==
  /\ server # "cut" /\ client = "reads"
  /\ \E n \in Len(got)..Len(wire) : wire' = SubSeq(wire, 1, n)
  /\ server' = "cut"
  /\ UNCHANGED <<result, page, left, buffer, code, got, client>>
-----------------------------------------------------------------------------
(* The client: callGET, and the decoders of Query and QueryJSON.           *)

Read ==
  /\ client = "reads" /\ code = 200 /\ Len(got) < Len(wire)
  /\ got' = Append(got, wire[Len(got) + 1])
  /\ UNCHANGED <<result, page, left, buffer, wire, code, server, client>>

\* The end of the answer; an error status; the text of an error, which is no
\* row and nothing the decompressor accepts; or a broken connection.
ReadEnd ==
  /\ client = "reads" /\ server \in {"ended", "torn", "cut"}
  /\ code # 500 => Len(got) = Len(wire)
  /\ client' = IF server = "ended" /\ code = 200 THEN "ok" ELSE "error"
  /\ UNCHANGED <<result, page, left, buffer, wire, code, server, got>>

\* The CSV decoder skips lines that are blank.
NotBlank(lines) == SelectSeq(lines, LAMBDA line : line # <<"">>)

\* What Query returns.
CSVLines == NotBlank(got)
-----------------------------------------------------------------------------
Next == Render \/ WriteLine \/ Flush \/ FailLine \/ EndLines \/ Break
          \/ Read \/ ReadEnd

Spec == Init /\ [][Next]_vars
-----------------------------------------------------------------------------
(* Properties.                                                             *)

\* A QueryJSON without an error has every row, in order, with the value of
\* every column whose name is not used again: rows that cannot be encoded,
\* the compressor and a broken connection lose none silently
\* (tailsql.go:376-384, utils.go:180-185, client.go:72-81).
NoSilentLoss ==
  client = "ok" /\ route = "/json" =>
    /\ Len(got) = Len(rows)
    /\ \A i \in DOMAIN rows, j \in DOMAIN cols :
         (\A k \in DOMAIN cols : k > j => cols[k] # cols[j])
         => got[i][cols[j]] = IF rows[i][j] = "blob" THEN "base64" ELSE rows[i][j]

\* A Query without an error has the names of the columns and then every row
\* as text, in order, but for the lines that are blank (tailsql.go:353-358,
\* client.go:100-109).
CSVComplete ==
  client = "ok" /\ route = "/csv" =>
    CSVLines = NotBlank(csvOutput)

\* With the rule of README.md:190-201 first, a page shows no value of a
\* password column, whatever else the value looks like (utils.go:70-83).
RedactedStays ==
  \A i \in DOMAIN page, j \in DOMAIN cols :
    cols[j] = "password" => page[i][j] = "<redacted-password>"

\* A page links every URL and shows NULL as such, though the rule for JSON
\* matches their text and passes (uirules.go:52-60, options.go:319-322).
RulesPass ==
  \A i \in DOMAIN page, j \in DOMAIN cols :
    cols[j] # "password" =>
      /\ rows[i][j] = "url" => page[i][j] = "link"
      /\ rows[i][j] = "null" => page[i][j] = "(null)"

(* What a comment of the code says and it does not do.                     *)

\* tailsql.go:26-28: /csv serves "the first line giving the column names,
\* the remaining lines the rows"; client.go:84-87: "Rows is the result of a
\* successful Query call".  A Query without an error has every row.
RowsArrive ==
  client = "ok" /\ route = "/csv" /\ cols # <<>> => Len(CSVLines) = 1 + Len(rows)
=============================================================================
