----------------------------- MODULE ImportRows -----------------------------
(***************************************************************************)
(* What becomes of the lines of a spreadsheet: the two readers that turn   *)
(* them into rows of import_job_rows, ImportsService.upload in the API and *)
(* the Lambda import-parser, and the schema both check a row with.         *)
(*                                                                         *)
(* A cell is blank, a word, a number or a formula with its result.  A word *)
(* is a text that no number is written as; of it it matters whether it is  *)
(* spelled the way the schema spells it.  Numbers are counted in halves.   *)
(* Booleans, dates and rich text are left out.  A sheet has a header, its  *)
(* first row, which says how the column of each field is headed, and lines.*)
(***************************************************************************)
EXTENDS Integers, SequencesExt, TLC

CONSTANT Sheet      \* the spreadsheets that are looked at

Blank == [kind |-> "blank"]
Word(w, spelling) == [kind |-> "word", word |-> w, spelling |-> spelling]
Number(halves) == [kind |-> "number", halves |-> halves]
Formula(cell) == [kind |-> "formula", result |-> cell]

Plain ==
  {Blank} \cup [kind : {"word"}, word : STRING, spelling : {"schema", "other"}]
          \cup [kind : {"number"}, halves : Int]
Cell == Plain \cup [kind : {"formula"}, result : Plain]

-----------------------------------------------------------------------------
(* importRowInputSchema. *)

\* What a component of each category must say of itself.
Required ==
  "RAM" :> {"ddrGeneration", "speedMhz", "capacityGb"} @@ "CPU" :> {"socket", "cores"}
  @@ "SSD" :> {"interface", "capacityGb"} @@ "GPU" :> {"vramGb"}
  @@ "MAINBOARD" :> {"socket", "chipset"} @@ "PSU" :> {"wattage", "efficiencyRating", "modular"}
  @@ "CASE" :> {"caseSize", "supportedMainboard"} @@ "COOLER" :> {"coolerType", "supportedSocket"}

Category == DOMAIN Required

Positive == {"quantity", "speedMhz", "capacityGb", "cores", "threads", "vramGb", "wattage"}
Numeric == Positive \cup {"unitPrice", "warrantyMonths"}
Text == {"sku", "name", "brand", "supplier", "socket", "formFactor", "chipset",
         "efficiencyRating", "modular", "caseSize", "supportedMainboard", "coolerType",
         "supportedSocket"}
Choice == [category |-> Category, ddrGeneration |-> {"DDR3", "DDR4", "DDR5"},
           interface |-> {"NVMe", "SATA"}]
Field == Numeric \cup Text \cup DOMAIN Choice

\* A header says the name of the field, with or without blanks in it, or is not
\* there.
ASSUME SheetAssumption ==
  Sheet \subseteq [header : [Field -> {"plain", "spaced", "absent"}],
                  lines  : Seq([Field -> Cell])]

Whole(cell) == cell.halves % 2 = 0

Fits(f, cell) ==
  CASE f \in Numeric -> /\ cell.kind = "number"
                        /\ cell.halves >= IF f \in Positive THEN 1 ELSE 0
                        /\ f # "unitPrice" => Whole(cell)
    [] f \in Text -> cell.kind = "word"
    [] f \in DOMAIN Choice -> \E w \in Choice[f] : cell = Word(w, "schema")

\* A row is the function from the fields it has to their values.
Passes(row) ==
  /\ {"sku", "name", "category", "quantity"} \subseteq DOMAIN row
  /\ \A f \in DOMAIN row : Fits(f, row[f])
  /\ Required[row["category"].word] \subseteq DOMAIN row
  /\ row["category"].word = "CPU" /\ "threads" \in DOMAIN row
       => row["threads"].halves >= row["cores"].halves

-----------------------------------------------------------------------------
(* The readers. *)

\* String(): a number is written out, an object is "[object Object]".
Spelled(cell) ==
  CASE cell.kind = "word" -> cell
    [] cell.kind = "number" -> [kind |-> "word", word |-> "digits", halves |-> cell.halves,
                                spelling |-> "schema"]
    [] cell.kind = "formula" -> Word("object", "schema")

\* The spelling that toUpperCase() leads to; "NVMe" is the schema's own.
UpperCase(cell) == IF cell.kind = "word" THEN [cell EXCEPT !.spelling = "schema"] ELSE cell

RowOf(Read(_)) ==
  LET given == {f \in Field : Read(f) # Blank} IN [f \in given |-> Read(f)]

\* cellValue: a formula counts by its result.
CellValue(cell) == IF cell.kind = "formula" THEN cell.result ELSE cell

\* The columns normalizeExcelRow takes over.
UploadField ==
  Field \ {"wattage", "efficiencyRating", "modular", "caseSize", "supportedMainboard",
           "coolerType", "supportedSocket"}

\* normalizeExcelRow, and the headers without blanks, dashes and underscores.
UploadCell(header, cells, f) ==
  LET cell == CellValue(cells[f]) IN
  IF f \notin UploadField \/ header[f] = "absent" THEN Blank
  ELSE IF cell = Blank THEN IF f = "quantity" THEN Number(0) ELSE Blank
  ELSE IF f \in Numeric THEN cell
  ELSE IF f \in Text THEN Spelled(cell) ELSE UpperCase(Spelled(cell))
UploadRow(header, cells) == RowOf(LAMBDA f : UploadCell(header, cells, f))

\* prepareRows, line by line: a row that passes must be the first of its sku.
Note(noted, row) ==
  IF ~Passes(row) THEN [noted EXCEPT !.valid = Append(@, FALSE)]
  ELSE [seen  |-> noted.seen \cup {row["sku"]},
        valid |-> Append(noted.valid, row["sku"] \notin noted.seen)]

UploadRows(sheet) == [i \in DOMAIN sheet.lines |-> UploadRow(sheet.header, sheet.lines[i])]

\* Which lines upload stages as VALID.
NoNotes == [seen |-> {}, valid |-> <<>>]
UploadValid(sheet) == FoldLeft(Note, NoNotes, UploadRows(sheet)).valid

\* A text that is falsy is left out; "modular" is only looked at for null.
Falsy(f, cell) == cell = Blank \/ (f # "modular" /\ cell = Number(0))

\* The normalisation in import-parser.  Headers are compared as they are, but
\* for their case, and an interface is taken as it is written.
ParserCell(header, cells, f) ==
  LET cell == cells[f] IN
  IF header[f] # "plain" THEN Blank
  ELSE IF f \in Numeric THEN cell
  ELSE IF Falsy(f, cell) THEN Blank
  ELSE IF f \in {"category", "ddrGeneration"} THEN UpperCase(Spelled(cell)) ELSE Spelled(cell)
ParserRow(header, cells) == RowOf(LAMBDA f : ParserCell(header, cells, f))

ParserRows(sheet) == [i \in DOMAIN sheet.lines |-> ParserRow(sheet.header, sheet.lines[i])]

\* Which lines import-parser stages as VALID.
ParserValid(sheet) == [i \in DOMAIN sheet.lines |-> Passes(ParserRows(sheet)[i])]

-----------------------------------------------------------------------------
(* What must hold. *)

\* The places where the readers are known to differ, each line of the list for
\* a difference in the code: columns that upload does not take over, headers
\* of several words, formulas, an interface in other letters, a zero as text.
Ambiguous(sheet, cells) ==
  \E f \in Field :
    \/ f \notin UploadField /\ cells[f] # Blank
    \/ sheet.header[f] = "spaced"
    \/ cells[f].kind = "formula"
    \/ f = "interface" /\ cells[f].kind = "word" /\ cells[f].spelling # "schema"
    \/ f \notin Numeric /\ cells[f] = Number(0)

\* Whichever way a file comes in, a line is staged as VALID by upload just when
\* import-parser does so and no earlier line has its sku, with the same data,
\* unless it falls under the known differences.
ReadersAgree ==
  \A sheet \in Sheet :
    (\A i \in DOMAIN sheet.lines : ~Ambiguous(sheet, sheet.lines[i]))
      => \A i \in DOMAIN sheet.lines :
           /\ UploadValid(sheet)[i] <=>
                /\ ParserValid(sheet)[i]
                /\ \A j \in 1 .. i - 1 :
                     ParserValid(sheet)[j] => sheet.lines[j]["sku"] # sheet.lines[i]["sku"]
           /\ ParserValid(sheet)[i] => UploadRows(sheet)[i] = ParserRows(sheet)[i]

=============================================================================
