------------------------------ MODULE AgentTurn -----------------------------
(***************************************************************************)
(* A request to the assistant: the command endpoints and the Ask endpoint  *)
(* (hermes/api.py), the Dispatcher they share (hermes/agent/dispatcher.py) *)
(* with its patterns, its approval tokens and its second try through       *)
(* intent, the agent and its tools (hermes/agent/nl_agent.py), and the     *)
(* draft a handler or a tool stages (hermes/commands/agency_intake.py).    *)
(*                                                                         *)
(* A text is what the two sets of patterns see of it: whether it matches   *)
(* _WRITE_HINT and which route it matches first.  What a language model    *)
(* returns is a choice.                                                    *)
(***************************************************************************)
EXTENDS Integers, Sequences, FiniteSets

CONSTANTS
    Callers,
    Disabled,       \* HERMES_DISABLED_TOOLS
    KeepsToEnum,    \* does the model keep to run_report's enum?
    MaxTurns, MaxDrafts  \* bounds

VARIABLES
    turn,       \* the request of each caller
    drafts,     \* agency_intake_drafts: which request staged each, confirmed or not
    turns

agentVars == <<turn, drafts, turns>>

-----------------------------------------------------------------------------
(* Texts, desks and tools                                                  *)

Texts == [hint : BOOLEAN, route : {"intake", "case", "read", "research", "none"}]
           \cup {[hint |-> FALSE, route |-> "token"]}

Tools == {"intake_lead", "run_report", "web_research", "list_carriers", "lookup_class_code",
          "appointments_by_line", "match_carrier_appetite", "list_cases", "case_progress",
          "commission_summary", "commission_shortfalls", "find_client", "client_policies",
          "ams_client_snapshot", "crm_client_activity", "client_documents",
          "list_intake_submissions", "email_search"}

Desks == {"carrier", "finance", "crm", "renewals", "cases", "intake", "home"}

\* What a tool says, given how its first request and the second ones went: found
\* rows, found none, failed.
Outcomes == {"rows", "none", "failed"}

\* disabled_tools() drops empty names.
ASSUME AgentAssumption == "" \notin Disabled

\* The tools of one request, and those that show a second one's rows if they come.
FindClient(r) == r[1]
ListCarriers(r) == r[1]
ListIntake(r) == r[1]
EmailSearch(r) == r[1]
CommissionSummary(r) == r[1]
CommissionShortfalls(r) == r[1]
CarrierAppetite(r) == r[1]
CrmActivity(r) == r[1]

\* Two references read before either is searched; carriers and their appetite.
ClassCode(r) ==
    IF "failed" \in {r[1], r[2]} THEN "failed" ELSE IF "rows" \in {r[1], r[2]} THEN "rows" ELSE "none"
Appointments(r) == IF "failed" \in {r[1], r[2]} THEN "failed" ELSE r[1]

\* A client, then the policies; a case, then its checklist.
ClientPolicies(r) == IF r[1] = "rows" THEN r[2] ELSE r[1]
CaseProgress(r) == IF r[1] = "rows" /\ r[2] = "failed" THEN "failed" ELSE r[1]

\* A second request that fails counts as one that found nothing: the policies of the
\* AMS, the files of a folder, the progress of a case asked whether it can close.
Hopeful(r) == IF r[1] = "rows" /\ r[2] # "rows" THEN "none" ELSE r[1]
AmsSnapshot(r) == Hopeful(r)
ClientDocuments(r) == Hopeful(r)
ListCases(r, closable) == IF closable THEN Hopeful(r) ELSE r[1]

HopefulTools == {"ams_client_snapshot", "client_documents", "list_cases"}
OneRequest == {"find_client", "list_carriers", "list_intake_submissions", "email_search",
               "commission_summary", "commission_shortfalls", "match_carrier_appetite", "crm_client_activity"}

AnswerHopeful(tool, r, closable) == Hopeful(r)      \* faulty
Answer(tool, r, closable) ==
    CASE tool = "find_client"             -> FindClient(r)
      [] tool = "list_carriers"           -> ListCarriers(r)
      [] tool = "list_intake_submissions" -> ListIntake(r)
      [] tool = "email_search"            -> EmailSearch(r)
      [] tool = "commission_summary"      -> CommissionSummary(r)
      [] tool = "commission_shortfalls"   -> CommissionShortfalls(r)
      [] tool = "match_carrier_appetite"  -> CarrierAppetite(r)
      [] tool = "crm_client_activity"     -> CrmActivity(r)
      [] tool = "lookup_class_code"       -> ClassCode(r)
      [] tool = "appointments_by_line"    -> Appointments(r)
      [] tool = "client_policies"         -> ClientPolicies(r)
      [] tool = "case_progress"           -> CaseProgress(r)
      [] tool = "ams_client_snapshot"     -> AmsSnapshot(r)
      [] tool = "client_documents"        -> ClientDocuments(r)
      [] tool = "list_cases"              -> ListCases(r, closable)
      [] OTHER                            -> "rows"

\* Did a request that bears on the answer fail?
Blind(tool, r) == r[1] = "failed" \/ (tool \notin OneRequest /\ r[1] = "rows" /\ r[2] = "failed")

-----------------------------------------------------------------------------
(* The endpoints                                                           *)

Quiet == [at |-> "idle"]

AgentInit ==
    /\ turn = [p \in Callers |-> Quiet]
    /\ drafts = {} /\ turns = 0

TurnTo(p, t) == turn' = [turn EXCEPT ![p] = t]
Answered(t, r) == [at |-> "told", entry |-> t.entry, tool |-> IF t.unread THEN t.tool ELSE "", unread |-> t.unread, result |-> r, reply |-> r]

\* dispatch() is no coroutine: what awaits it raises once it has run.
Reply(t, r) == IF t.entry = "alias" THEN [Answered(t, r) EXCEPT !.reply = "error"] ELSE Answered(t, r)

FreshTurn(entry, x, c, desk) ==
    [at |-> "route", entry |-> entry, text |-> x, confirm |-> c, desk |-> desk, intent |-> TRUE,
     model |-> "strong", left |-> 0, tool |-> "", unread |-> FALSE, result |-> "", reply |-> ""]

Starts(p) == turn[p].at \in {"idle", "told"} /\ turns < MaxTurns /\ turns' = turns + 1

\* requires_confirmation() looks at the text alone.
Submit(p, entry, x, c) ==
    /\ Starts(p)
    /\ LET t == FreshTurn(entry, x, c, "home")
       IN  TurnTo(p, IF x.hint /\ ~c THEN Reply(t, "confirm") ELSE t)
    /\ UNCHANGED drafts

\* A question about renewals on no desk is answered from the book.
Prompt(p, desk) ==
    /\ Starts(p)
    /\ LET t == [FreshTurn("ask", CHOOSE x \in Texts : TRUE, FALSE, desk) EXCEPT !.at = "model"]
       IN  TurnTo(p, t) \/ (desk = "home" /\ TurnTo(p, Reply(t, "rows")))
    /\ UNCHANGED drafts

-----------------------------------------------------------------------------
(* The handlers                                                            *)

Draft(t, p) == [by |-> p, n |-> turns, entry |-> t.entry, confirmed |-> t.confirm]

Results == {"draft", "error", "refused", "rows"}

\* The handler of x ends with r.  agency_intake.handle() refuses before the insert,
\* stages a draft, or the insert raises.
Handle(p, x, r) ==
    \/ /\ x.route = "intake" /\ r = "draft" /\ Cardinality(drafts) < MaxDrafts
       /\ drafts' = drafts \cup {Draft(turn[p], p)}
    \/ x.route = "intake" /\ r \in {"error", "refused"} /\ UNCHANGED drafts
    \/ x.route \in {"case", "read", "research"} /\ r \in {"refused", "rows"} /\ UNCHANGED drafts

\* No handler returns a write_intent, so no token finds one to approve.
Token(p) ==
    /\ turn[p].at = "route" /\ turn[p].text.route = "token"
    /\ TurnTo(p, Reply(turn[p], "nothing pending"))
    /\ UNCHANGED <<drafts, turns>>

\* A handler that refuses is tried again as what the model makes of the text.
AfterHandler(t, r) == IF r = "refused" /\ t.intent THEN [t EXCEPT !.at = "intent"] ELSE Reply(t, r)

Route(p) ==
    /\ turn[p].at = "route"
    /\ LET t == turn[p] IN
       \/ \E r \in Results : Handle(p, t.text, r) /\ TurnTo(p, AfterHandler(t, r))
       \/ /\ t.text.route = "none"
          /\ TurnTo(p, IF t.intent THEN [t EXCEPT !.at = "model"] ELSE Reply(t, "clarify"))
          /\ UNCHANGED drafts
    /\ UNCHANGED turns

\* _dispatch_from_intent()
Intent(p) ==
    /\ turn[p].at = "intent"
    /\ LET t == turn[p] IN
       \/ TurnTo(p, Reply(t, "refused"))
       \/ TurnTo(p, Reply(t, "clarify"))
       \/ \E x \in Texts : x # t.text /\ TurnTo(p, [t EXCEPT !.at = "route", !.text = x, !.intent = FALSE])
    /\ UNCHANGED <<drafts, turns>>

-----------------------------------------------------------------------------
(* ask()                                                                   *)

\* Judgements the agency acts on go to the stronger model group.
Model(desk) == IF desk \in {"carrier", "finance", "renewals"} THEN "strong" ELSE "default"

Complete(p) ==
    /\ turn[p].at = "model"
    /\ LET t == turn[p]  m == IF t.model = "strong" THEN Model(t.desk) ELSE t.model IN
       \/ \E n \in 0..2 : TurnTo(p, [t EXCEPT !.at = "tools", !.left = n, !.result = "rows"])
       \/ TurnTo(p, IF m = "strong" THEN [t EXCEPT !.model = "default"] ELSE Reply(t, "refused"))
    /\ UNCHANGED <<drafts, turns>>

After(t, tool, r, blind) ==
    [t EXCEPT !.left = @ - 1, !.tool = tool, !.result = r, !.unread = blind /\ r = "none"]

\* A handler that raises ends the request.
AfterTool(t, tool, r) == IF r = "error" THEN Reply(t, r) ELSE After(t, tool, r, FALSE)

\* The guard of the loop: what the model names need not be advertised.
RunsTool(t, tool) == tool \notin Disabled

Confirmed(t) == t.confirm

Call(p, tool) ==
    /\ turn[p].at = "tools" /\ turn[p].left > 0
    /\ LET t == turn[p] IN
       IF ~RunsTool(t, tool)
       THEN TurnTo(p, [t EXCEPT !.left = @ - 1]) /\ UNCHANGED drafts
       ELSE CASE tool = "intake_lead" ->
                      IF Confirmed(t)
                      THEN \E r \in Results : /\ Handle(p, [hint |-> FALSE, route |-> "intake"], r)
                                              /\ TurnTo(p, AfterTool(t, tool, r))
                      ELSE TurnTo(p, After(t, tool, "confirm", FALSE)) /\ UNCHANGED drafts
                 [] tool = "run_report" ->   \* a Dispatcher without the agent
                      \/ TurnTo(p, After(t, tool, "clarify", FALSE)) /\ UNCHANGED drafts
                      \/ (~KeepsToEnum /\ \E x \in Texts, r \in Results : Handle(p, x, r) /\ TurnTo(p, AfterTool(t, tool, r)))
                 [] OTHER ->
                      /\ \E r \in [1..2 -> Outcomes], closable \in BOOLEAN :
                             TurnTo(p, After(t, tool, Answer(tool, r, closable), Blind(tool, r)))
                      /\ UNCHANGED drafts
    /\ UNCHANGED turns

\* The summary is worded over the last tool's result.
Summarise(p) ==
    /\ turn[p].at = "tools" /\ turn[p].left = 0
    /\ TurnTo(p, Reply(turn[p], turn[p].result))
    /\ UNCHANGED <<drafts, turns>>

AgentNext ==
    \E p \in Callers :
        \/ \E entry \in {"dispatch", "alias"}, x \in Texts, c \in BOOLEAN : Submit(p, entry, x, c)
        \/ \E desk \in Desks : Prompt(p, desk)
        \/ Token(p) \/ Route(p) \/ Intent(p) \/ Complete(p)
        \/ \E tool \in Tools : Call(p, tool)
        \/ Summarise(p)

AgentSpec == AgentInit /\ [][AgentNext]_agentVars

-----------------------------------------------------------------------------

\* A tool the instance has disabled is never executed, although the model can name
\* a tool it was not shown (the guard in ask()'s loop, lost once before).
DisabledNeverExecuted == \A p \in Callers : turn[p].at = "tools" => turn[p].tool \notin Disabled

\* Nothing said to the Command Center's Ask box stages a draft, whatever tools the
\* model calls and whatever another caller confirms meanwhile.
AskWritesNothing == \A d \in drafts : d.entry # "ask"

\* Who is told that there is nothing on file was answered by requests that did not
\* fail, save by the three tools that take a failure for an empty answer.
DenialsWereRead ==
    \A p \in Callers :
        LET t == turn[p]
        IN  t.at = "told" /\ t.unread => t.tool \in HopefulTools

\* What the assistant does and denies, whatever the model calls: no disabled tool runs, no
\* question writes, and nothing is denied that was not read.
AgentSafe == DisabledNeverExecuted /\ AskWritesNothing /\ DenialsWereRead

=============================================================================
