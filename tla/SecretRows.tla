------------------------------ MODULE SecretRows ------------------------------
(***************************************************************************)
(* The rows of the dialog that adds secrets (web/components/               *)
(* add-secrets-dialog.tsx), the parser of pasted .env text behind them     *)
(* (web/lib/dotenv.ts) and the batch they are sent in.                     *)
(*                                                                         *)
(* A line of text is what the parser tells apart: its kind, the key it     *)
(* names, whether a value follows, and the kinds of quote it holds, which  *)
(* are what could end a value begun on an earlier line.  Values are not    *)
(* represented beyond their presence.                                      *)
(*                                                                         *)
(* Rows stay in the order they were made in, that of their ids; and what   *)
(* the parser yields is in the order of its lines.  Sets hold all of it.   *)
(***************************************************************************)
EXTENDS Naturals, Sequences, FiniteSets

CONSTANTS
  Keys,        \* what secrets are called
  NoKey,       \* an empty field
  MaxLines,    \* bound: lines of a paste into the dialog as it opens
  MaxMore,     \* bound: lines of a later paste
  MaxRowIds    \* bound: rows ever created

ASSUME RowBounds == NoKey \notin Keys /\ MaxLines \in Nat /\ MaxMore \in 0..MaxLines /\ MaxRowIds \in Nat \ {0}

-----------------------------------------------------------------------------
(* The parser *)

\* A "plain" assignment ends on its line, in quotes or without; "opens" begins a
\* value in quotes of the kind `opener' that does not.  What cannot be read is
\* "junk": no equals sign, or a key the core would refuse.  What is skipped
\* without a word is "ignored": a blank line or a comment.
Assigning == {"plain", "opens"}
Quotes    == {"single", "double"}

Lines ==
  [kind : {"plain"}, key : Keys, value : BOOLEAN, opener : {"none"}, quotes : SUBSET Quotes]
    \cup {l \in [kind : {"opens"}, key : Keys, value : {TRUE}, opener : Quotes, quotes : SUBSET Quotes] :
            l.opener \in l.quotes}
    \cup [kind : {"junk", "ignored"}, key : {NoKey}, value : {FALSE}, opener : {"none"}, quotes : SUBSET Quotes]

TextsUpTo(m) == UNION {[1..n -> Lines] : n \in 0..m}

Texts   == TextsUpTo(MaxLines)
Further == TextsUpTo(MaxMore)

\* The lines that could end a value begun on line i, whatever else they are: the
\* lines inside a value are appended as they stand.
Closers(text, i) == {j \in i + 1..Len(text) : text[i].opener \in text[j].quotes}

\* Mutant: a value may end on any later line, and the last one is taken.
EndOfValue0(text, i) == CHOOSE j \in Closers(text, i) : \A k \in Closers(text, i) : k <= j

EndOfValue(text, i) == CHOOSE j \in Closers(text, i) : \A k \in Closers(text, i) : j <= k

\* What reading from line i consumes and yields; a value that never ends takes
\* the rest of the text, and is reported where the text ends.
Reading(text, i) ==
  LET Read(what, line, upto) ==
        [what |-> what, key |-> text[i].key, value |-> text[i].value, line |-> line, upto |-> upto]
  IN  CASE text[i].kind = "plain" -> Read("entry", i, i)
        [] text[i].kind = "opens" /\ Closers(text, i) # {} -> Read("entry", i, EndOfValue(text, i))
        [] text[i].kind = "opens" /\ Closers(text, i) = {} -> Read("skipped", Len(text), Len(text))
        [] text[i].kind = "junk" -> Read("skipped", i, i)
        [] OTHER -> Read("ignored", i, i)

parseDotenv(text) ==
  LET from[i \in 1..Len(text) + 1] ==
        IF i > Len(text) THEN {} ELSE {Reading(text, i)} \cup from[Reading(text, i).upto + 1]
  IN  from[1]

Entries(text) == {r \in parseDotenv(text) : r.what = "entry"}
Skipped(text) == {r \in parseDotenv(text) : r.what = "skipped"}

looksLikeDotenv(text) == Entries(text) # {} /\ Cardinality(Entries(text)) >= Cardinality(Skipped(text))

-----------------------------------------------------------------------------
VARIABLES
  rows,         \* the rows on screen
  nextRowId,
  sending,      \* the rows of the batch on its way, as the closure holds them
  fieldErrors,  \* row id -> the key its message is about, and the key that row was sent with
  conflicts,    \* the keys said to exist already
  stored,       \* the core: the keys of the environment
  pasted        \* history: the text just taken for a file, and the lines named

NoPaste == [text |-> << >>, named |-> {}]

rowVars == <<rows, nextRowId, sending, fieldErrors, conflicts, stored, pasted>>

Row_ == [id : 0..MaxRowIds, key : Keys \cup {NoKey}, value : BOOLEAN]

NewRow(id, key, value) == [id |-> id, key |-> key, value |-> value]

Filled(rs) == {r \in rs : r.key # NoKey}

\* The index of a row in an array, and the row at an index.
IndexIn(rs, r) == Cardinality({q \in rs : q.id < r.id})
At(rs, n)      == CHOOSE r \in rs : IndexIn(rs, r) = n

RowsInit ==
  /\ rows = {NewRow(0, NoKey, FALSE)} /\ nextRowId = 1
  /\ sending = {} /\ fieldErrors = << >> /\ conflicts = {}
  /\ stored \in SUBSET Keys
  /\ pasted = NoPaste

Edit(r, new) == rows' = (rows \ {r}) \cup {new}

TypeIntoRow(r) ==
  /\ \/ \E k \in Keys \cup {NoKey} : Edit(r, [r EXCEPT !.key = k])
     \/ \E v \in BOOLEAN : Edit(r, [r EXCEPT !.value = v])
  /\ UNCHANGED <<nextRowId, sending, fieldErrors, conflicts, stored>>
  /\ pasted' = NoPaste

AddRow ==
  /\ nextRowId <= MaxRowIds
  /\ rows' = rows \cup {NewRow(nextRowId, NoKey, FALSE)} /\ nextRowId' = nextRowId + 1
  /\ UNCHANGED <<sending, fieldErrors, conflicts, stored>>
  /\ pasted' = NoPaste

RemoveRow(r) ==
  /\ rows = {r} => r.value /\ r.key = NoKey
  /\ rows' = rows \ {r}
  /\ UNCHANGED <<nextRowId, sending, fieldErrors, conflicts, stored>>
  /\ pasted' = NoPaste

\* absorb: everything typed stays, but for the row pasted into.
Kept(r) == {q \in rows \ {r} : q.key # NoKey \/ q.value}

\* onPasteIntoKey: text that does not look like a file is typed as it is.
PasteIntoKey(text, r) ==
  LET added  == {e \in Entries(text) : \A q \in Kept(r) : q.key # e.key}
      n      == Cardinality(added)
      Idx(e) == Cardinality({d \in added : d.line < e.line})
  IN
  /\ looksLikeDotenv(text) /\ nextRowId + n <= MaxRowIds
  /\ rows' = Kept(r) \cup {NewRow(nextRowId + Idx(e), e.key, e.value) : e \in added}
                     \cup {NewRow(nextRowId + n, NoKey, FALSE)}
  /\ nextRowId' = nextRowId + n + 1
  /\ pasted' = [text |-> text, named |-> {e.line : e \in Skipped(text)}]
  /\ UNCHANGED <<sending, fieldErrors, conflicts, stored>>

\* reset, by whatever way the dialog is closed, also while a batch is away.
\* The messages of the last attempt are left as they are.
CloseRows ==
  /\ nextRowId <= MaxRowIds
  /\ rows' = {NewRow(nextRowId, NoKey, FALSE)} /\ nextRowId' = nextRowId + 1
  /\ UNCHANGED <<sending, fieldErrors, conflicts, stored>>
  /\ pasted' = NoPaste

-----------------------------------------------------------------------------
(* The batch *)

\* Refused by the dialog, or sent; messages of the last attempt go either way.
SubmitRows ==
  /\ sending = {}
  /\ fieldErrors' = << >> /\ conflicts' = {}
  /\ sending' = IF Filled(rows) # {} /\ \A r \in Filled(rows) : r.value THEN rows ELSE {}
  /\ UNCHANGED <<rows, nextRowId, stored>>
  /\ pasted' = NoPaste

Twice(batch, r) == \E q \in batch : q.id < r.id /\ q.key = r.key

\* handleCreateSecretsBatch: everything is validated before anything is
\* created; what is wrong is named by its index in the array that was sent.
Complaints(batch) ==
  {IndexIn(batch, r) : r \in {q \in batch : Twice(batch, q) \/ q.key \in stored}}

BatchCreated ==
  /\ sending # {} /\ Complaints(Filled(sending)) = {}
  /\ stored' = stored \cup {r.key : r \in Filled(sending)}
  /\ nextRowId <= MaxRowIds
  /\ rows' = {NewRow(nextRowId, NoKey, FALSE)} /\ nextRowId' = nextRowId + 1
  /\ sending' = {}
  /\ UNCHANGED <<fieldErrors, conflicts>>
  /\ pasted' = NoPaste

\* Mutant: the paths are mapped onto the rows on screen when the answer comes.
RowsNamed0 == Filled(rows)

\* mapFieldErrors and conflictingKeys take the rows the closure was made with.
RowsNamed == Filled(sending)

BatchRefused ==
  LET batch == Filled(sending)
      wrong == {n \in Complaints(batch) : n < Cardinality(RowsNamed)}
  IN
  /\ sending # {} /\ Complaints(batch) # {}
  /\ fieldErrors' = [id \in {At(RowsNamed, n).id : n \in wrong} |->
                       [about |-> At(batch, CHOOSE n \in wrong : At(RowsNamed, n).id = id).key,
                        sent  |-> {r.key : r \in {q \in sending : q.id = id}}]]
  /\ conflicts' = {At(RowsNamed, n).key : n \in {m \in wrong : At(batch, m).key \in stored}}
  /\ sending' = {}
  /\ UNCHANGED <<rows, nextRowId, stored>>
  /\ pasted' = NoPaste

BatchFails ==
  /\ sending # {} /\ sending' = {}
  /\ UNCHANGED <<rows, nextRowId, fieldErrors, conflicts, stored>>
  /\ pasted' = NoPaste

AddedElsewhere(k) ==
  /\ k \notin stored /\ stored' = stored \cup {k}
  /\ UNCHANGED <<rows, nextRowId, sending, fieldErrors, conflicts>>
  /\ pasted' = NoPaste

RowsNext ==
  \/ \E r \in rows : TypeIntoRow(r) \/ RemoveRow(r)
  \/ /\ nextRowId < MaxRowIds
     /\ \E r \in rows, text \in IF rows = {NewRow(0, NoKey, FALSE)} THEN Texts ELSE Further : PasteIntoKey(text, r)
  \/ AddRow \/ CloseRows \/ SubmitRows \/ BatchCreated \/ BatchRefused \/ BatchFails
  \/ \E k \in Keys : AddedElsewhere(k)

RowsSpec == RowsInit /\ [][RowsNext]_rowVars

-----------------------------------------------------------------------------
(* Properties *)

RowsTypeOK ==
  /\ rows \subseteq Row_ /\ sending \subseteq Row_
  /\ nextRowId \in 1..MaxRowIds + 1 /\ stored \subseteq Keys /\ conflicts \subseteq Keys
  /\ \A r, q \in rows : r.id = q.id => r = q

\* A message is about the key its row was sent with, and a key is said to
\* exist only if it does, whatever was done to the rows while the batch was
\* away (mapFieldErrors).
ErrorStaysWithItsRow ==
  /\ conflicts \subseteq stored
  /\ \A id \in DOMAIN fieldErrors : fieldErrors[id].sent = {fieldErrors[id].about}

\* Of a line inside a quoted value: one that an earlier line opened, itself
\* not inside, and that no line between ended.
Inside(text) ==
  LET in[i \in 1..Len(text)] ==
        \E j \in 1..i - 1 : /\ text[j].kind = "opens" /\ ~in[j]
                            /\ \A k \in j + 1..i - 1 : text[j].opener \notin text[k].quotes
  IN  in

\* The reader of lines finds the assignments that stand outside every value,
\* and only those (the comment on looksLikeDotenv: never shredding a value).
ParserKeepsValuesWhole ==
  {e.line : e \in Entries(pasted.text)} =
    {i \in DOMAIN pasted.text :
       /\ ~Inside(pasted.text)[i] /\ pasted.text[i].kind \in Assigning
       /\ pasted.text[i].kind = "opens" => Closers(pasted.text, i) # {}}
=============================================================================
