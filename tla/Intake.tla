------------------------------- MODULE Intake -------------------------------
(***************************************************************************)
(* What an upload is checked for before it is stored, and what the worker  *)
(* checks again when it parses the same bytes later: the recorded page     *)
(* count, Extraction's steps, and what they found.  The API and the worker *)
(* are two processes, each with the MAX_PDF_PAGES it was started with, and *)
(* the worker also meets documents that were stored under earlier rules.   *)
(*                                                                         *)
(* A filename is a short sequence over the kinds of characters its rules   *)
(* tell apart.                                                             *)
(***************************************************************************)
EXTENDS Extraction

CONSTANTS
    Arrivals,    \* the uploads: a filename, a file and either process' MAX_PDF_PAGES
    Earlier,     \* documents stored under earlier rules: a file, the page count
                 \* recorded for it and the worker's MAX_PDF_PAGES
    MaxBytes,    \* MAX_UPLOAD_BYTES
    ReadBytes,   \* _READ_CHUNK_BYTES
    MaxName      \* MAX_FILENAME_LENGTH

\* "e" and the combining mark compose to "eacute"; a "format" character is
\* invisible, and "separator" stands for both slashes.
Characters == {"e", "mark", "eacute", "dot", "space", "format", "separator"}

ASSUME IntakeAssumption ==
    /\ \A a \in Arrivals : /\ a.raw \in Seq(Characters) /\ a.pdf \in Pdfs
                           /\ a.limit \in Nat /\ a.maxPages \in Nat
    /\ \A e \in Earlier : e.pdf \in Pdfs /\ e.recorded \in Nat /\ e.maxPages \in Nat
    /\ MaxBytes \in Nat /\ ReadBytes \in Nat \ {0} /\ MaxName \in Nat

VARIABLES
    step,      \* of the upload: "name", "read", "validate", "stored", "rejected";
               \* "earlier" for a document that was there before
    raw,       \* the filename the client sent
    name,      \* the name that is stored
    received,  \* bytes in memory
    answer,    \* how the upload was answered
    limit,     \* MAX_PDF_PAGES as the API was started with it
    recorded   \* the row's page count; 0 is NULL

intake == <<step, raw, name, received, answer, limit, recorded>>
vars == <<extraction, intake>>

Init ==
    /\ \/ /\ step = "name" /\ recorded = 0
          /\ \E a \in Arrivals :
                raw = a.raw /\ pdf = a.pdf /\ limit = a.limit /\ maxPages = a.maxPages
       \/ /\ step = "earlier" /\ raw = <<>> /\ limit = 0
          /\ \E e \in Earlier : pdf = e.pdf /\ recorded = e.recorded /\ maxPages = e.maxPages
    /\ name = <<>> /\ received = 0 /\ answer = "none"
    /\ InitExtraction

-----------------------------------------------------------------------------
(* display_filename.                                                       *)

\* What s has at the places in `at`, in its order.
Pick(s, at) ==
    LET q == CHOOSE q \in [1..Cardinality(at) -> at] : \A i, j \in DOMAIN q : i < j => q[i] < q[j]
    IN  [i \in DOMAIN q |-> s[q[i]]]

\* Unicode's NFC.
Normalised(s) ==
    LET composed == {i \in DOMAIN s : s[i] = "e" /\ i < Len(s) /\ s[i + 1] = "mark"}
    IN  Pick([i \in DOMAIN s |-> IF i \in composed THEN "eacute" ELSE s[i]],
             {i \in DOMAIN s : i - 1 \notin composed})

LastComponent(s) == Pick(s, {i \in DOMAIN s : \A j \in i..Len(s) : s[j] # "separator"})

Visible(s) == Pick(s, {i \in DOMAIN s : s[i] # "format"})

\* str.strip
Trimmed(s) ==
    LET inked == {i \in DOMAIN s : s[i] # "space"}
    IN  Pick(s, {i \in DOMAIN s : \E j, k \in inked : j <= i /\ i <= k})

\* Mutant: blanks around the name stay.
DisplayNameUntrimmed(s) == Visible(LastComponent(Normalised(s)))

DisplayName(s) == Trimmed(Visible(LastComponent(Normalised(s))))

Usable(n) == n \notin {<<>>, <<"dot">>, <<"dot", "dot">>} /\ Len(n) <= MaxName

Conclude(l, a) == step' = l /\ answer' = a

Name ==
    /\ step = "name"
    /\ IF Usable(DisplayName(raw))
       THEN name' = DisplayName(raw) /\ step' = "read" /\ UNCHANGED answer
       ELSE Conclude("rejected", "invalid_filename") /\ UNCHANGED name
    /\ UNCHANGED <<extraction, raw, received, limit, recorded>>

-----------------------------------------------------------------------------
(* read_capped and validate_pdf.                                           *)

Smaller(a, b) == IF a < b THEN a ELSE b

\* Mutant: the limit is looked at when the file has ended.
ReadAll ==
    /\ step = "read"
    /\ LET chunk == Smaller(ReadBytes, pdf.size - received)
       IN  /\ received' = received + chunk
           /\ IF chunk # 0 THEN UNCHANGED <<step, answer>>
              ELSE IF received > MaxBytes THEN Conclude("rejected", "too_large")
              ELSE step' = "validate" /\ UNCHANGED answer
    /\ UNCHANGED <<extraction, raw, name, limit, recorded>>

\* One pass of the loop: a chunk, then the limit.
Read ==
    /\ step = "read"
    /\ LET chunk == Smaller(ReadBytes, pdf.size - received)
       IN  /\ received' = received + chunk
           /\ IF chunk = 0 THEN step' = "validate" /\ UNCHANGED answer
              ELSE IF received + chunk > MaxBytes THEN Conclude("rejected", "too_large")
              ELSE UNCHANGED <<step, answer>>
    /\ UNCHANGED <<extraction, raw, name, limit, recorded>>

\* The checks, each cheaper than the next.
Refusal ==
    IF received = 0 THEN "empty"
    ELSE IF ~pdf.magic THEN "unsupported_type"
    ELSE IF ~pdf.opens THEN "malformed"
    ELSE IF pdf.locked THEN "encrypted"
    ELSE IF Len(pdf.pages) < 1 THEN "malformed"
    ELSE IF Len(pdf.pages) > limit THEN "too_many_pages" ELSE "none"

Validate ==
    /\ step = "validate"
    /\ IF Refusal = "none"
       THEN Conclude("stored", "accepted") /\ recorded' = Len(pdf.pages)
       ELSE Conclude("rejected", Refusal) /\ UNCHANGED recorded
    /\ UNCHANGED <<extraction, raw, name, received, limit>>

-----------------------------------------------------------------------------
(* IngestionService._process_claimed, on the stored bytes.                 *)

Stored == step \in {"stored", "earlier"}

\* The recorded count is refused before the bytes are read; no count passes.
Verify ==
    /\ Stored /\ phase = "idle"
    /\ IF recorded > maxPages THEN End("page_limit_exceeded")
       ELSE phase' = "open" /\ UNCHANGED outcome
    /\ UNCHANGED <<pdf, maxPages, page, pages, intake>>

Work == Stored /\ Extract /\ UNCHANGED intake

\* What the parser returned is held against the row, and must have text.
Judge ==
    /\ Stored /\ outcome = "extracted"
    /\ outcome' = IF recorded \notin {0, Len(pages)} THEN "page_count_mismatch"
                  ELSE IF \A p \in DOMAIN pages : pages[p] = <<>> THEN "no_extractable_text"
                  ELSE "parsed"
    /\ UNCHANGED <<pdf, maxPages, phase, page, pages, intake>>

Next == Name \/ Read \/ Validate \/ Verify \/ Work \/ Judge

Spec == Init /\ [][Next]_vars

-----------------------------------------------------------------------------
(* Properties.                                                             *)

\* A name that is kept is safe to show: it has a visible character, no path, no
\* invisible characters, no blanks around it, and it fits its column.
NameIsSafe ==
    step = "stored" =>
        /\ Usable(name)
        /\ {name[i] : i \in DOMAIN name} \cap {"separator", "format"} = {}
        /\ name[1] # "space" /\ Last(name) # "space"

\* However large the file, at most one chunk more than the limit is in memory, and
\* no more than the limit of a file that is stored.
MemoryIsBounded ==
    /\ received <= MaxBytes + ReadBytes
    /\ step = "stored" => received = pdf.size /\ received <= MaxBytes

\* "Stored bytes and rows can predate a rule, and a cap can be lowered after
\* upload": whatever an earlier upload let through, a document is parsed only when
\* the worker's own rules allow it, whole, with some text, and with the pages its
\* row counts.  An upload that was accepted under today's rules is refused only
\* for its pages, and only by a worker with a lower cap than the API's.
WorkerDecidesAfresh ==
    /\ outcome = "parsed" =>
        /\ pdf.opens /\ ~pdf.locked
        /\ Len(pages) = Len(pdf.pages) /\ Len(pages) \in 1..maxPages
        /\ recorded \in {0, Len(pages)}
        /\ \E p \in DOMAIN pages : pages[p] # <<>>
    /\ step = "stored"
       /\ outcome \in {"open_failed", "encrypted", "page_limit_exceeded", "page_count_mismatch"} =>
        /\ outcome = "page_limit_exceeded" /\ pages = <<>>
        /\ maxPages < Len(pdf.pages) /\ Len(pdf.pages) <= limit

=============================================================================
