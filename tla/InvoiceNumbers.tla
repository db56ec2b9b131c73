---------------------------- MODULE InvoiceNumbers ----------------------------
(***************************************************************************)
(* GST invoices of one fiscal year: the task generate_gst_invoice takes a  *)
(* number from the year's invoice_sequences row under a row lock, inserts  *)
(* the invoice and, once committed, enqueues the task that fills in its    *)
(* pdf_url.  create_invoice and next_invoice_number are the same steps in  *)
(* a request's session.                                                    *)
(***************************************************************************)
EXTENDS Naturals, FiniteSets

CONSTANTS
    Billed,          \* the ledger entries to be invoiced
    InvoiceWorkers,  \* workers of the queue
    NoEntry,
    MaxRetries       \* max_retries of generate_gst_invoice

ASSUME InvoiceAssumption ==
    NoEntry \notin Billed /\ IsFiniteSet(Billed) /\ MaxRetries \in Nat

VARIABLES
    lastSeq,   \* invoice_sequences.last_seq, 0 while the row is not there
    invoice,   \* the number of each entry's invoice, 0 while there is none
    pdf,       \* whether pdf_url is set
    pdfTask,   \* whether the task that sets it is queued
    tries,     \* attempts of the invoice task of each entry
    drawer     \* what each worker is doing, and the number it has drawn

invoiceVars == <<lastSeq, invoice, pdf, pdfTask, tries, drawer>>

Drawer == [pc: {"idle", "locked", "first", "committed"},
           entry: Billed \cup {NoEntry}, number: Nat]
AtRest == [pc |-> "idle", entry |-> NoEntry, number |-> 0]

InvoiceInit ==
    /\ lastSeq = 0
    /\ invoice = [b \in Billed |-> 0]
    /\ pdf = [b \in Billed |-> FALSE]
    /\ pdfTask = [b \in Billed |-> FALSE]
    /\ tries = [b \in Billed |-> 0]
    /\ drawer = [w \in InvoiceWorkers |-> AtRest]

-----------------------------------------------------------------------------

\* SELECT ... FOR UPDATE of the year's row waits for the one that holds it; with
\* no row there is nothing to lock, and number 1 is drawn.
Draw(w, b) ==
    /\ drawer[w].pc = "idle" /\ tries[b] <= MaxRetries
    /\ lastSeq # 0 => \A v \in InvoiceWorkers : drawer[v].pc # "locked"
    /\ tries' = [tries EXCEPT ![b] = @ + 1]
    /\ drawer' = [drawer EXCEPT ![w] =
          [pc |-> IF lastSeq = 0 THEN "first" ELSE "locked", entry |-> b,
           number |-> lastSeq + 1]]
    /\ UNCHANGED <<lastSeq, invoice, pdf, pdfTask>>

MUT_DrawCommits(w) ==
    LET d == drawer[w] IN
    /\ d.pc \in {"locked", "first"}
    /\ IF invoice[d.entry] # 0 \/ (d.pc = "first" /\ lastSeq # 0)
       THEN /\ lastSeq' = lastSeq + 1
            /\ drawer' = [drawer EXCEPT ![w] = AtRest]
            /\ UNCHANGED invoice
       ELSE /\ lastSeq' = d.number
            /\ invoice' = [invoice EXCEPT ![d.entry] = d.number]
            /\ drawer' = [drawer EXCEPT ![w].pc = "committed"]
    /\ UNCHANGED <<pdf, pdfTask, tries>>

MUT_DrawCommitsTwice(w) ==
    LET d == drawer[w] IN
    /\ d.pc \in {"locked", "first"}
    /\ lastSeq' = d.number
    /\ invoice' = [invoice EXCEPT ![d.entry] = d.number]
    /\ drawer' = [drawer EXCEPT ![w].pc = "committed"]
    /\ UNCHANGED <<pdf, pdfTask, tries>>

\* A second first row of the year, or a second invoice of the entry, violates a
\* unique constraint: nothing of the transaction stays.
DrawCommits(w) ==
    LET d == drawer[w] IN
    /\ d.pc \in {"locked", "first"}
    /\ IF invoice[d.entry] # 0 \/ (d.pc = "first" /\ lastSeq # 0)
       THEN /\ drawer' = [drawer EXCEPT ![w] = AtRest]
            /\ UNCHANGED <<lastSeq, invoice>>
       ELSE /\ lastSeq' = d.number
            /\ invoice' = [invoice EXCEPT ![d.entry] = d.number]
            /\ drawer' = [drawer EXCEPT ![w].pc = "committed"]
    /\ UNCHANGED <<pdf, pdfTask, tries>>

\* The PDF task is enqueued, or the broker is away: the retry of the invoice
\* task then finds the entry invoiced and fails for good.
EnqueuePdf(w) ==
    /\ drawer[w].pc = "committed"
    /\ pdfTask' \in {pdfTask, [pdfTask EXCEPT ![drawer[w].entry] = TRUE]}
    /\ drawer' = [drawer EXCEPT ![w] = AtRest]
    /\ UNCHANGED <<lastSeq, invoice, pdf, tries>>

DrawAborts(w) ==
    /\ drawer[w].pc # "idle"
    /\ drawer' = [drawer EXCEPT ![w] = AtRest]
    /\ UNCHANGED <<lastSeq, invoice, pdf, pdfTask, tries>>

\* generate_invoice_pdf updates the row by its id.
WritePdf(b) ==
    /\ pdfTask[b]
    /\ pdfTask' = [pdfTask EXCEPT ![b] = FALSE]
    /\ pdf' = [pdf EXCEPT ![b] = TRUE]
    /\ UNCHANGED <<lastSeq, invoice, tries, drawer>>

InvoiceNext ==
    \/ \E w \in InvoiceWorkers :
          \/ \E b \in Billed : Draw(w, b)
          \/ DrawCommits(w) \/ EnqueuePdf(w) \/ DrawAborts(w)
    \/ \E b \in Billed : WritePdf(b)

InvoiceSpec == InvoiceInit /\ [][InvoiceNext]_invoiceVars

-----------------------------------------------------------------------------
(* Properties that hold *)

\* Every variable keeps its type.
InvoiceTypeOK ==
    /\ lastSeq \in Nat /\ invoice \in [Billed -> Nat]
    /\ pdf \in [Billed -> BOOLEAN] /\ pdfTask \in [Billed -> BOOLEAN]
    /\ tries \in [Billed -> Nat] /\ drawer \in [InvoiceWorkers -> Drawer]

\* The numbers of a year's invoices are 1, 2, ... without a gap or a repetition,
\* though transactions that drew one abort and two may draw the first.
NumbersAreGapless ==
    /\ {invoice[b] : b \in Billed} \ {0} = 1..lastSeq
    /\ \A b, c \in Billed : invoice[b] = invoice[c] /\ invoice[b] # 0 => b = c

Series == INSTANCE GaplessSeries WITH Documents <- Billed, number <- invoice

\* The invoices of a year implement the series: workers that fail, wait for the year's row
\* or draw its first number at the same time never reissue, skip or share a number.
ImplementsSeries == Series!Spec
=============================================================================
