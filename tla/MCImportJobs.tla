---------------------------- MODULE MCImportJobs ----------------------------
(* An import whose rows are the lines of a spreadsheet that pass: three of   *)
(* five.  And the sheets on which the two readers are compared: a good line  *)
(* of every category with any of its cells or headers changed, a CPU with    *)
(* other cores and threads, and three lines that repeat a sku or have no     *)
(* quantity.                                                                 *)
EXTENDS ImportJobs, ImportRows

Good(category, sku) ==
  [f \in Field |->
     IF f = "category" THEN Word(category, "other")
     ELSE IF f = "sku" THEN Word(sku, "schema")
     ELSE IF f \notin Required[category] \cup {"name", "quantity", "threads"} THEN Blank
     ELSE IF f \in Numeric THEN Number(8)
     ELSE IF f = "ddrGeneration" THEN Word("DDR4", "other")
     ELSE IF f = "interface" THEN Word("NVMe", "schema")
     ELSE Word("text", "schema")]

Odd == {Blank, Number(0), Number(1), Number(2), Number(-2), Word("text", "schema"),
        Word("SATA", "other"), Formula(Number(2))}

Headed(how) == [f \in Field |-> how]

Sheets ==
  {[header |-> Headed("plain"), lines |-> <<[Good(c, "s1") EXCEPT ![f] = x]>>] :
     c \in Category, f \in Field, x \in Odd}
  \cup
  {[header |-> Headed("plain"), lines |-> <<[Good("CPU", "s1") EXCEPT !["cores"] = x, !["threads"] = y]>>] :
     x \in Odd, y \in Odd}
  \cup
  {[header |-> [Headed("plain") EXCEPT ![f] = how], lines |-> <<Good(c, "s1")>>] :
     c \in Category, f \in Field, how \in {"absent", "spaced"}}
  \cup
  {[header |-> Headed("plain"),
    lines |-> [i \in 1 .. 3 |-> [Good("GPU", "s1") EXCEPT !["sku"] = sku[i], !["quantity"] = quantity[i]]]] :
     sku \in [1 .. 3 -> {Word("s1", "schema"), Number(2), Number(4)}],
     quantity \in [1 .. 3 -> {Number(2), Blank}]}

Spreadsheet ==
  [header |-> Headed("plain"),
   lines |-> <<Good("RAM", "s1"), Good("CPU", "s2"), [Good("SSD", "s3") EXCEPT !["quantity"] = Blank],
               Good("PSU", "s4"), [Good("GPU", "s5") EXCEPT !["vramGb"] = Number(-2)]>>]

\* What the configuration gives as Row.
ASSUME LinesThatPass == Row = {i \in DOMAIN Spreadsheet.lines : ParserValid(Spreadsheet)[i]}

\* Says nothing of a state, so that it is evaluated once, with the constants.
ASSUME ReadersAgreeOnSheets == ReadersAgree

=============================================================================
