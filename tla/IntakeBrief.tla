---------------------------- MODULE IntakeBrief ----------------------------
(***************************************************************************)
(* What Step 1 computes before any department runs: whether an intake is    *)
(* accepted (domain/intake.py, research/normalize.py), what a homepage      *)
(* fetch reports (research/fetch.py, tools.py, extract.py) and the brief    *)
(* the Supervisor makes of it (agents/supervisor.py, domain/briefing.py).   *)
(*                                                                         *)
(* A name and a page title are the sets of their words; a page is what the  *)
(* brief can tell apart of it.                                              *)
(***************************************************************************)
EXTENDS Naturals, Sequences, FiniteSets

CONSTANT Words \* the words of company names and page titles

-----------------------------------------------------------------------------
(* The intake: the checks in the order of the code and the code of each.    *)

NameChecks == <<"company_name_required", "company_name_too_long",
                "company_name_placeholder", "web_domain_required",
                "web_domain_too_long">>

DomainChecks == <<"control_characters", "placeholder_value",
                  "unsupported_scheme", "userinfo_not_allowed", "no_hostname",
                  "blocked_private_host", "invalid_label", "domain_too_long",
                  "no_registrable_domain">>

Checks == NameChecks \o DomainChecks
Fault == {Checks[i] : i \in DOMAIN Checks}

RejectionCode(fault) ==
  IF fault \in {"no_hostname", "invalid_label"} THEN "invalid_hostname" ELSE fault

\* The checks run in order, and the first that fails is the one reported.
FirstCodes(faults) ==
  {RejectionCode(Checks[i]) : i \in {k \in DOMAIN Checks :
     Checks[k] \in faults /\ \A j \in DOMAIN Checks : j < k => Checks[j] \notin faults}}

\* What the name of the site resolves to before the run starts.
Resolution == {"public", "private", "unknown"}
ResolutionCode(resolution) ==
  IF resolution = "unknown" THEN "dns_resolution_failed" ELSE "blocked_private_host"

-----------------------------------------------------------------------------
(* The homepage.  A page has the host it was finally found at, the words of  *)
(* its title, a meta description or none, its visible text, the words of a  *)
(* legal-looking company name in it (none: {}), whether an industry is      *)
(* recognised and whether it looks like the page of a bot protection.       *)

Host == {"own", "www", "other"}
Text == {"empty", "weak", "good", "scripted"}
Page == {p \in [answer : {"page"}, host : Host, titled : BOOLEAN,
                title : SUBSET Words, meta : BOOLEAN, text : Text,
                legal : SUBSET Words, industry : BOOLEAN, protected : BOOLEAN] :
           p.titled \/ p.title = {}}

\* An answer that is no page leaves every field of the snapshot empty.
Refusal == {"blocked_private_host", "fetch_timeout", "fetch_access_denied",
            "unsupported_content_type"}
NoPage(answer) == [answer |-> answer, host |-> "own", titled |-> FALSE,
                   title |-> {}, meta |-> FALSE, text |-> "unknown",
                   legal |-> {}, industry |-> FALSE, protected |-> FALSE]
Answer == Page \cup {NoPage(r) : r \in Refusal}

Reachable(snapshot) == snapshot.answer = "page"

\* The warnings and errors the research reports with the snapshot.
ResearchErrors(snapshot) == {snapshot.answer} \cap {"blocked_private_host"}
ResearchWarnings(snapshot) ==
  (({snapshot.answer} \ {"page", "blocked_private_host"})
   \cup {w \in {"fetch_blocked_bot_protection"} : snapshot.protected}
   \cup (CASE snapshot.text = "empty" -> {"text_extraction_empty"}
           [] snapshot.text = "weak" -> {"text_extraction_weak"}
           [] snapshot.text = "scripted" ->
                {"text_extraction_weak", "js_content_detected"}
           [] OTHER -> {}))
  \cup {w \in {"industry_unknown"} : ~ snapshot.industry}
  \cup {"source_gap"}

\* The name the homepage gives the company: the first legal-looking name in
\* the title, the description or the text, else the submitted one, which is
\* the first of the candidates and always overlaps itself.
VerifiedName(name, snapshot) ==
  IF snapshot.legal # {} THEN snapshot.legal ELSE name
HomepageNameMatch(name, snapshot) ==
  IF snapshot.legal # {} THEN name \cap snapshot.legal # {} ELSE name # {}

-----------------------------------------------------------------------------
(* The Supervisor's brief.                                                   *)

IdentityConfidence(reachable, name, title) ==
  CASE ~ reachable -> "unverified"
    [] reachable /\ name # {} /\ name \subseteq title -> "high"
    [] reachable /\ ~ (name \subseteq title) /\ name \cap title # {} -> "medium"
    [] OTHER -> "low"

\* Another company's title: no word in common, and neither side empty.
IdentityConflict(confidence, name, title) ==
  /\ confidence = "low"
  /\ name # {} /\ title # {}
  /\ name \cap title = {}

IndustryConfidence(hint, titled, meta) ==
  CASE ~ hint -> "unknown"
    [] hint /\ (titled \/ meta) -> "high"
    [] OTHER -> "low"

\* The host the final one is compared with.  _hostname takes the text of its
\* argument: of a host name that is the host; the text of the normalization
\* contract, which run_pipeline hands over, is no URL and stays what it is.
DomainArgument == {"hostname", "contract"}
ExpectedHost(argument) == IF argument = "hostname" THEN "own" ELSE "contract text"
FinalHost(snapshot) == IF snapshot.host = "www" THEN "own" ELSE snapshot.host
DomainMismatch(argument, snapshot) ==
  Reachable(snapshot) /\ FinalHost(snapshot) # ExpectedHost(argument)

\* Mutant: the redirect is looked at before the conflict.
ReadinessRedirectFirst(reachable, conflict, confidence, mismatch) ==
  CASE mismatch -> "ready_with_website_gaps"
    [] ~ mismatch /\ conflict -> "blocked_identity_conflict"
    [] ~ conflict /\ ~ mismatch /\ ~ reachable -> "blocked_website_unreachable"
    [] ~ conflict /\ ~ mismatch /\ reachable /\ confidence \in {"unverified", "low"} ->
         "ready_with_identity_gaps"
    [] OTHER -> "ready"

Readiness(reachable, conflict, confidence, mismatch) ==
  CASE conflict -> "blocked_identity_conflict"
    [] ~ conflict /\ mismatch -> "ready_with_website_gaps"
    [] ~ conflict /\ ~ mismatch /\ ~ reachable -> "blocked_website_unreachable"
    [] ~ conflict /\ ~ mismatch /\ reachable /\ confidence \in {"unverified", "low"} ->
         "ready_with_identity_gaps"
    [] OTHER -> "ready"

RoutingGaps(reachable, conflict, confidence, mismatch) ==
  {g \in {"identity_conflict"} : conflict}
  \cup {g \in {"redirect_domain_mismatch"} : mismatch}
  \cup (IF conflict \/ mismatch THEN {}
        ELSE {g \in {"homepage_unreachable"} : ~ reachable}
             \cup {g \in {"identity_unverified"} : confidence = "unverified"}
             \cup {g \in {"identity_low_confidence"} : confidence = "low"})

\* What the brief claims with a source, and what it reports as missing.
Evidence(snapshot) ==
  IF Reachable(snapshot)
  THEN {"website_reachable"}
       \cup {f \in {"verified_company_name"} : snapshot.titled}
       \cup {f \in {"industry_hint"} : snapshot.meta}
  ELSE {}
MissingEvidence(snapshot, mismatch) ==
  {"verified_legal_name", "identity_source"}
  \cup (IF Reachable(snapshot)
        THEN {f \in {"verified_company_name"} : ~ snapshot.titled}
             \cup {f \in {"normalized_domain"} : mismatch}
             \cup {f \in {"homepage_text"} : snapshot.text = "scripted"}
        ELSE {"website_reachable", "verified_company_name", "industry_hint"})

MessageStatus(readiness) ==
  IF readiness \in {"ready", "ready_with_identity_gaps", "ready_with_website_gaps"}
  THEN "ready_for_department_routing" ELSE "blocked_for_department_routing"

IntakeBrief(name, argument, snapshot) ==
  LET reachable == Reachable(snapshot)
      confidence == IdentityConfidence(reachable, name, snapshot.title)
      conflict == IdentityConflict(confidence, name, snapshot.title)
      mismatch == DomainMismatch(argument, snapshot)
      readiness == Readiness(reachable, conflict, confidence, mismatch)
      hint == reachable /\ snapshot.industry
  IN [name |-> VerifiedName(name, snapshot),
      matched |-> HomepageNameMatch(name, snapshot),
      reachable |-> reachable,
      identity |-> confidence,
      industry |-> IndustryConfidence(hint, snapshot.titled, snapshot.meta),
      conflict |-> conflict,
      readiness |-> readiness,
      gaps |-> RoutingGaps(reachable, conflict, confidence, mismatch),
      evidence |-> Evidence(snapshot),
      missing |-> MissingEvidence(snapshot, mismatch),
      issues |-> ResearchErrors(snapshot) \cup ResearchWarnings(snapshot),
      status |-> MessageStatus(readiness)]

-----------------------------------------------------------------------------

\* A brief b says of the company what the homepage s supports.
Honest(name, s, b) ==
  /\ b.evidence \cap b.missing = {}
  /\ s.answer # "page" =>
       /\ b.evidence = {} /\ b.industry = "unknown" /\ b.identity = "unverified"
       /\ b.readiness = "blocked_website_unreachable" /\ s.answer \in b.issues
  /\ s.answer = "page" =>
       /\ (name # {} /\ s.title # {} /\ name \cap s.title = {})
            <=> b.status = "blocked_for_department_routing"
       /\ s.host = "other" =>
            /\ "redirect_domain_mismatch" \in b.gaps
            /\ "normalized_domain" \in b.missing
            /\ b.readiness # "ready"
  /\ b.readiness = "ready" => name \cap s.title # {}
=============================================================================
