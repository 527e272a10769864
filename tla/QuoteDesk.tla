------------------------------ MODULE QuoteDesk ------------------------------
(***************************************************************************)
(* Carriers' quotes under an opportunity (hermes/quotes/store.py), their   *)
(* PDFs in the client's folder (documents.py), their way to NowCerts       *)
(* through the queue (executor.py), and the proposals made of them         *)
(* (hermes/proposals).  A premium of 0 stands for none; a PDF is the       *)
(* number of its upload.  When jobs are retried is SyncScheduler's.  Jobs  *)
(* and proposals share only the quotes: a behaviour has one of the two.    *)
(***************************************************************************)
EXTENDS Naturals, FiniteSets, Sequences, FiniteSetsExt

CONSTANTS
    QuoteTerms,          \* what a quote may say: carrier, line of business, premium, effective date
    MaxQuotes, MaxSends, MaxUploads, MaxQuoteFaults     \* bounds

ASSUME QuoteAssumption ==
    /\ {MaxQuotes, MaxSends, MaxUploads, MaxQuoteFaults} \subseteq Nat
    /\ \A t \in QuoteTerms : t.premium \in Nat

VARIABLES
    quotes,     \* opportunity_quotes, in the order they were made
    cloud,      \* the client's Quotes folder: which upload lies under a name
    quoteJobs,       \* rows of outbound_sync_queue
    amsQuotes,  \* quotes in NowCerts; a quote's place is its id
    pipeline,   \* the opportunity
    request,    \* what a person's request still has to do
    executor,   \* what the quote executor is doing
    proposal,   \* the proposal last rendered
    quoteFaults

quoteVars == <<quotes, cloud, quoteJobs, amsQuotes, pipeline, request, executor, proposal, quoteFaults>>

Unset == 0
NoName == [carrier |-> "", lob |-> "", effective |-> "", number |-> 0, id |-> 0]
NoRequest == [at |-> "none", quote |-> Unset, upload |-> Unset, name |-> NoName]
NoWork == [at |-> "idle", job |-> Unset, number |-> Unset]

QuoteInit ==
    /\ quotes = <<>> /\ cloud = <<>> /\ quoteJobs = <<>> /\ amsQuotes = <<>>
    /\ pipeline = [premium |-> 1, number |-> Unset]
    /\ request = NoRequest /\ executor = NoWork /\ quoteFaults = 0
    /\ proposal = [of |-> {}, starred |-> {}, total |-> 0]

QuoteFault == quoteFaults < MaxQuoteFaults /\ quoteFaults' = quoteFaults + 1
Uploads == Cardinality({q \in DOMAIN quotes : quotes[q].upload # Unset})

-----------------------------------------------------------------------------
(* The desk                                                                *)

\* create_quote(): a draft of what was typed in, with the client of the opportunity.
CreateQuote(t, file) ==
    /\ request = NoRequest /\ proposal.of = {} /\ Len(quotes) < MaxQuotes
    /\ quotes' = Append(quotes, [terms |-> t, status |-> "Draft", number |-> Unset, document |-> NoName, upload |-> Unset])
    /\ request' = IF file /\ Uploads < MaxUploads THEN [NoRequest EXCEPT !.at = "file", !.quote = Len(quotes) + 1, !.upload = Uploads + 1] ELSE NoRequest
    /\ UNCHANGED <<cloud, quoteJobs, amsQuotes, pipeline, executor, proposal, quoteFaults>>

AttachDocument(q) ==
    /\ request = NoRequest /\ proposal.of = {} /\ Uploads < MaxUploads
    /\ request' = [NoRequest EXCEPT !.at = "file", !.quote = q, !.upload = Uploads + 1]
    /\ UNCHANGED <<quotes, cloud, quoteJobs, amsQuotes, pipeline, executor, proposal, quoteFaults>>

\* build_filename(): carrier, line and the first of effective date, quote number and id.
FileName(q) ==
    LET t == quotes[q].terms number == quotes[q].number
    IN  [carrier |-> t.carrier, lob |-> t.lob, effective |-> t.effective,
         number |-> IF t.effective = "" THEN number ELSE Unset,
         id |-> IF t.effective = "" /\ number = Unset THEN q ELSE Unset]

\* file_quote_pdf(): the file goes under its name, whatever lies there, and then onto
\* the row; a failure leaves the quote as it is.
FilePdf ==
    LET q == request.quote name == FileName(q)
    IN  /\ request.at = "file"
        /\ \/ /\ cloud' = [n \in DOMAIN cloud \cup {name} |-> IF n = name THEN request.upload ELSE cloud[n]]
              /\ request' = [request EXCEPT !.at = "attach", !.name = name] /\ UNCHANGED quoteFaults
           \/ QuoteFault /\ request' = NoRequest /\ UNCHANGED cloud
        /\ UNCHANGED <<quotes, quoteJobs, amsQuotes, pipeline, executor, proposal>>

AttachPdf ==
    /\ request.at = "attach" /\ request' = NoRequest
    /\ \/ /\ quotes' = [quotes EXCEPT ![request.quote].document = request.name,
                                      ![request.quote].upload = request.upload] /\ UNCHANGED quoteFaults
       \/ QuoteFault /\ UNCHANGED quotes
    /\ UNCHANGED <<cloud, quoteJobs, amsQuotes, pipeline, executor, proposal>>

\* People edit the opportunity, after a job was made of it.
EditOpportunity == /\ quoteJobs # <<>> /\ pipeline.premium = 1 /\ pipeline' = [pipeline EXCEPT !.premium = 2]
                   /\ UNCHANGED <<quotes, cloud, quoteJobs, amsQuotes, request, executor, proposal, quoteFaults>>

-----------------------------------------------------------------------------
(* To NowCerts                                                             *)

\* The queue takes one open job per object; the object 0 is the opportunity.
Queueable(object) == /\ Len(quoteJobs) < MaxSends /\ proposal.of = {}
                     /\ \A j \in DOMAIN quoteJobs : quoteJobs[j].object = object => quoteJobs[j].status \in {"completed", "failed"}

\* map_opportunity_to_quote(), map_quote_row_to_nowcerts(): the terms of the moment.
Payload(object) == IF object = Unset THEN pipeline.premium ELSE quotes[object].terms.premium

\* stage_quote_row(): the job, and in a request of its own the row's status.
AfterStagingSent(q) == "Sent"         \* what a bug could make of it: sent once it is approved
AfterStaging(q) == "Queued"

SendQuote(q) ==
    /\ request = NoRequest /\ Queueable(q)
    /\ quoteJobs' = Append(quoteJobs, [object |-> q, premium |-> Payload(q), status |-> "queued"])
    /\ request' = [NoRequest EXCEPT !.at = "mark", !.quote = q]
    /\ UNCHANGED <<quotes, cloud, amsQuotes, pipeline, executor, proposal, quoteFaults>>

MarkQueued ==
    /\ request.at = "mark" /\ request' = NoRequest
    /\ \/ quotes' = [quotes EXCEPT ![request.quote].status = AfterStaging(request.quote)] /\ UNCHANGED quoteFaults
       \/ QuoteFault /\ UNCHANGED quotes
    /\ UNCHANGED <<cloud, quoteJobs, amsQuotes, pipeline, executor, proposal>>

\* stage_quote_job()
SendOpportunity ==
    /\ request = NoRequest /\ Queueable(Unset)
    /\ quoteJobs' = Append(quoteJobs, [object |-> Unset, premium |-> Payload(Unset), status |-> "queued"])
    /\ UNCHANGED <<quotes, cloud, amsQuotes, pipeline, request, executor, proposal, quoteFaults>>

ClaimQuote(j) ==
    /\ executor.at = "idle" /\ quoteJobs[j].status = "queued" /\ quoteJobs' = [quoteJobs EXCEPT ![j].status = "processing"]
    /\ executor' = [NoWork EXCEPT !.at = "insert", !.job = j]
    /\ UNCHANGED <<quotes, cloud, amsQuotes, pipeline, request, proposal, quoteFaults>>

\* insert_policy() and _extract_quote_ref(): the insert may be made and not answered.
InsertQuote ==
    LET j == executor.job
        made == Append(amsQuotes, [of |-> quoteJobs[j].object, premium |-> quoteJobs[j].premium])
    IN  /\ executor.at = "insert"
        /\ \/ /\ amsQuotes' = made /\ executor' = [executor EXCEPT !.at = "stamp", !.number = Len(made)]
              /\ UNCHANGED <<quoteJobs, quoteFaults>>
           \/ /\ QuoteFault /\ amsQuotes' \in {amsQuotes, made} /\ executor' = NoWork
              /\ quoteJobs' = [quoteJobs EXCEPT ![j].status = "failed"]
        /\ UNCHANGED <<quotes, cloud, pipeline, request, proposal>>

\* link_nowcerts(), twice: an opportunity or a row that cannot be stamped is logged.
StampQuote ==
    LET q == quoteJobs[executor.job].object
    IN  /\ executor.at = "stamp" /\ executor' = [executor EXCEPT !.at = "close"]
        /\ \E opp, row \in BOOLEAN :
              /\ pipeline' = IF opp THEN [pipeline EXCEPT !.number = executor.number] ELSE pipeline
              /\ quotes' = IF row /\ q # Unset
                           THEN [quotes EXCEPT ![q].number = executor.number, ![q].status = "Sent"] ELSE quotes
              /\ IF opp /\ row THEN UNCHANGED quoteFaults ELSE QuoteFault
        /\ UNCHANGED <<cloud, quoteJobs, amsQuotes, request, proposal>>

CloseQuoteJob ==
    /\ executor.at = "close" /\ executor' = NoWork
    /\ \/ quoteJobs' = [quoteJobs EXCEPT ![executor.job].status = "completed"] /\ UNCHANGED quoteFaults
       \/ QuoteFault /\ quoteJobs' = [quoteJobs EXCEPT ![executor.job].status = "failed"]
    /\ UNCHANGED <<quotes, cloud, amsQuotes, pipeline, request, proposal>>

RetryQuote(j) ==
    /\ quoteJobs[j].status = "failed" /\ \A k \in DOMAIN quoteJobs : quoteJobs[k].object = quoteJobs[j].object => quoteJobs[k].status \in {"completed", "failed"}
    /\ quoteJobs' = [quoteJobs EXCEPT ![j].status = "queued"]
    /\ UNCHANGED <<quotes, cloud, amsQuotes, pipeline, request, executor, proposal, quoteFaults>>

-----------------------------------------------------------------------------
(* Proposals                                                               *)

\* group_by_lob() and package_total(): the lowest premium of each line.
SameLine(qs, q) == {r \in qs : quotes[r].terms.lob = quotes[q].terms.lob}
Priced(qs) == {q \in qs : quotes[q].terms.premium # 0}

Cheapest(qs) == {q \in Priced(qs) : \A r \in Priced(qs) : quotes[q].terms.premium <= quotes[r].terms.premium}
PackageTotal(qs) == MapThenSumSet(LAMBDA q : IF q = Min(Cheapest(SameLine(qs, q)) \cup {Len(quotes) + 1})
                                             THEN quotes[q].terms.premium ELSE 0, qs)

\* render_html(): the option with a star is the first of the cheapest of its line.
Starred(qs) == {q \in qs : quotes[q].terms.premium # 0
                             /\ \A r \in SameLine(qs, q) \ {q} : quotes[r].terms.premium # 0 =>
                                   \/ quotes[q].terms.premium < quotes[r].terms.premium
                                   \/ quotes[q].terms.premium = quotes[r].terms.premium /\ q < r}

\* generate_and_file(), for a new proposal or once more for an old one.
Propose(qs) == /\ qs # {} /\ quoteJobs = <<>> /\ request = NoRequest /\ proposal' = [of |-> qs, starred |-> Starred(qs), total |-> PackageTotal(qs)]
               /\ UNCHANGED <<quotes, cloud, quoteJobs, amsQuotes, pipeline, request, executor, quoteFaults>>

QuoteNext ==
    \/ \E t \in QuoteTerms, file \in BOOLEAN : CreateQuote(t, file)
    \/ \E q \in DOMAIN quotes : AttachDocument(q) \/ SendQuote(q)
    \/ \E j \in DOMAIN quoteJobs : ClaimQuote(j) \/ RetryQuote(j)
    \/ FilePdf \/ AttachPdf \/ MarkQueued \/ EditOpportunity \/ SendOpportunity
    \/ InsertQuote \/ StampQuote \/ CloseQuoteJob
    \/ \E qs \in SUBSET DOMAIN quotes : Propose(qs)

QuoteSpec == QuoteInit /\ [][QuoteNext]_quoteVars

-----------------------------------------------------------------------------
(* Properties                                                              *)

\* A quote that reads Sent is in NowCerts with its own terms, whatever was sent beside
\* it and however the sending was retried (run_quote_executor, link_nowcerts).
SentMeansQuoted ==
    \A q \in DOMAIN quotes : quotes[q].status = "Sent" =>
        /\ quotes[q].number \in DOMAIN amsQuotes
        /\ amsQuotes[quotes[q].number] = [of |-> q, premium |-> quotes[q].terms.premium]

\* The options a proposal marks with a star, one for each line that has a premium, add
\* up to the total it prints (package_total and render_html).
StarsAddUp ==
    /\ proposal.total = MapThenSumSet(LAMBDA q : quotes[q].terms.premium, proposal.starred)
    /\ \A q \in proposal.of : (\E r \in SameLine(proposal.of, q) : quotes[r].terms.premium # 0) =>
          Cardinality(proposal.starred \cap SameLine(proposal.of, q)) = 1

\* What the quote desk says of a quote, to the agency or to a client, is so: that it was
\* sent, and what it costs.
QuoteSafe == SentMeansQuoted /\ StarsAddUp

=============================================================================
