------------------------------ MODULE WebResearch ------------------------------
(***************************************************************************)
(* The live research of the agent (agent/tools/web and its three nodes):   *)
(* one thread for each section of the notes, all of which are awaited.     *)
(*                                                                         *)
(*   news_research       tavily_search_body     AskTavily                  *)
(*   product_research    naver_web_snippets     AskNaver, twice if need be *)
(*   nts_law_research    nts_cgm_search_once    AskLaw, then for the first *)
(*      records of the list ViewDetail, and for those whose page is drawn  *)
(*      by scripts one browser: OpenBrowser, Render, CloseBrowser          *)
(*   pool.map, the node's notes                 Collect                    *)
(*                                                                         *)
(* A page is the record whose link led to it and where it really is.       *)
(***************************************************************************)
EXTENDS Naturals, Sequences, FiniteSets

CONSTANTS Sections,  \* what is searched for
          Lists,     \* the lists the law API may answer: of each record its link
          TopN       \* NTS_LAW_DETAIL_TOP_N

ASSUME ResearchAssumption ==
    TopN \in Nat /\ Lists \subseteq Seq({"taxlaw", "law", "other", "none"})

VARIABLES
    research,   \* "news", "product", "law"
    browser,    \* Playwright: "off", "ready", "missing" (switched on, not installed)
    thread,     \* where each section's thread is
    records,    \* the links of its list
    position,   \* the record, or the page of the browser, that comes next
    pending,    \* pending_pw: the records left to the browser
    rendered,   \* what the browser got for them
    detail,     \* detail_by_index: what stands under a record
    answer,     \* what the search itself gave
    notes       \* what the node returns

researchVars == <<research, browser, thread, records, position, pending, rendered, detail, answer, notes>>

Note(text) == [page |-> 0, at |-> text]

ResearchInit ==
    /\ research \in {"news", "product", "law"}
    /\ browser \in IF research = "law" THEN {"off", "ready", "missing"} ELSE {"off"}
    /\ thread = [s \in Sections |-> "ask"]
    /\ records = [s \in Sections |-> <<>>]
    /\ position = [s \in Sections |-> 1]
    /\ pending = [s \in Sections |-> <<>>]
    /\ rendered = [s \in Sections |-> <<>>]
    /\ detail = [s \in Sections |-> <<>>]
    /\ answer = [s \in Sections |-> "none"]
    /\ notes = "none"

lawVars == <<records, position, pending, rendered, detail>>

\* Whatever fails becomes a line of the section.
AskTavily(s) ==
    /\ research = "news" /\ thread[s] = "ask"
    /\ \E found \in {"results", "failed"} : answer' = [answer EXCEPT ![s] = found]
    /\ thread' = [thread EXCEPT ![s] = "done"]
    /\ UNCHANGED <<research, browser, lawVars, notes>>

\* Only if there is nothing, the second query is tried.
AskNaver(s) ==
    /\ research = "product" /\ thread[s] \in {"ask", "again"}
    /\ \E found \in {"results", "nothing", "failed"} :
          /\ answer' = [answer EXCEPT ![s] = found]
          /\ thread' = [thread EXCEPT ![s] = IF found = "nothing" /\ thread[s] = "ask" THEN "again" ELSE "done"]
    /\ UNCHANGED <<research, browser, lawVars, notes>>

\* The records whose detail is shown.
Top(list) == IF Len(list) < TopN THEN Len(list) ELSE TopN

\* The request, the error objects and the XML: a list, an empty one, or a line that says
\* what is wrong.
AskLaw(s) ==
    /\ research = "law" /\ thread[s] = "ask"
    /\ \/ \E list \in Lists :
             /\ records' = [records EXCEPT ![s] = list]
             /\ answer' = [answer EXCEPT ![s] = IF list = <<>> THEN "nothing" ELSE "results"]
             /\ thread' = [thread EXCEPT ![s] = IF Top(list) = 0 THEN "done" ELSE "details"]
       \/ /\ answer' = [answer EXCEPT ![s] = "failed"]
          /\ thread' = [thread EXCEPT ![s] = "done"]
          /\ UNCHANGED records
    /\ UNCHANGED <<research, browser, position, pending, rendered, detail, notes>>

\* _fetch_nts_law_detail_http(): where the redirects end is looked at before the text.
Fetched(i) == {[page |-> i, at |-> "official"], Note("redirected"), Note("failed")}

\* What a record without a browser gets, by its link (_is_allowed_detail_url).
DetailFor(link, i) ==
    CASE link = "none"  -> {Note("no link")}
      [] link = "other" -> {Note("not allowed")}
      [] OTHER          -> Fetched(i)

\* A page of taxlaw.nts.go.kr is left to the browser, the others are fetched.
ViewDetail(s) ==
    LET i == position[s]
        link == records[s][i]
    IN  /\ thread[s] = "details"
        /\ i <= Top(records[s])
        /\ IF link = "taxlaw" /\ browser # "off"
           THEN /\ pending' = [pending EXCEPT ![s] = Append(@, i)]
                /\ detail' = [detail EXCEPT ![s] = Append(@, Note("pending"))]
           ELSE /\ \E d \in DetailFor(link, i) : detail' = [detail EXCEPT ![s] = Append(@, d)]
                /\ UNCHANGED pending
        /\ position' = [position EXCEPT ![s] = i + 1]
        /\ UNCHANGED <<research, browser, thread, records, rendered, answer, notes>>

\* After the last record: without pages for the browser the section is complete.
OpenBrowser(s) ==
    /\ thread[s] = "details"
    /\ position[s] > Top(records[s])
    /\ \/ /\ pending[s] = <<>>
          /\ thread' = [thread EXCEPT ![s] = "done"]
          /\ UNCHANGED <<position, rendered>>
       \/ /\ pending[s] # <<>> /\ browser = "missing"
          /\ rendered' = [rendered EXCEPT ![s] = [j \in DOMAIN pending[s] |-> Note("not installed")]]
          /\ thread' = [thread EXCEPT ![s] = "close"]
          /\ UNCHANGED position
       \/ /\ pending[s] # <<>> /\ browser = "ready"
          /\ thread' = [thread EXCEPT ![s] = "render"]
          /\ position' = [position EXCEPT ![s] = 1]
          /\ UNCHANGED rendered
       \/ \* chromium.launch() is not in a try
          /\ pending[s] # <<>> /\ browser = "ready"
          /\ thread' = [thread EXCEPT ![s] = "raised"]
          /\ UNCHANGED <<position, rendered>>
    /\ UNCHANGED <<research, browser, records, pending, detail, answer, notes>>

\* page.goto() and _extract_body(): where the page has gone is not looked at again.
Render(s) ==
    LET j == position[s]
    IN  /\ thread[s] = "render"
        /\ \E got \in {[page |-> pending[s][j], at |-> "official"], [page |-> pending[s][j], at |-> "elsewhere"],
                       Note("no body"), Note("failed")} :
              rendered' = [rendered EXCEPT ![s] = Append(@, got)]
        /\ position' = [position EXCEPT ![s] = j + 1]
        /\ thread' = [thread EXCEPT ![s] = IF j = Len(pending[s]) THEN "close" ELSE "render"]
        /\ UNCHANGED <<research, browser, records, pending, detail, answer, notes>>

\* Mutated: the first of the browser's pages goes under the first record, and so on.
PairedInOrder(details, indexes, pages) ==
    [i \in DOMAIN details |-> IF i \in DOMAIN pages THEN pages[i] ELSE details[i]]

\* zip(pending_pw, excerpts)
Paired(details, indexes, pages) ==
    [i \in DOMAIN details |->
        IF \E j \in DOMAIN indexes : indexes[j] = i
        THEN pages[CHOOSE j \in DOMAIN indexes : indexes[j] = i]
        ELSE details[i]]

CloseBrowser(s) ==
    /\ thread[s] = "close"
    /\ detail' = [detail EXCEPT ![s] = Paired(detail[s], pending[s], rendered[s])]
    /\ thread' = [thread EXCEPT ![s] = "done"]
    /\ UNCHANGED <<research, browser, records, position, pending, rendered, answer, notes>>

\* When every thread has ended; what one raised is raised again, and the node says only
\* that the search failed.
Collect ==
    /\ notes = "none"
    /\ \A s \in Sections : thread[s] \in {"done", "raised"}
    /\ notes' = IF \E s \in Sections : thread[s] = "raised" THEN "failed" ELSE "sections"
    /\ UNCHANGED <<research, browser, thread, lawVars, answer>>

ResearchNext ==
    \/ \E s \in Sections :
          \/ AskTavily(s) \/ AskNaver(s) \/ AskLaw(s)
          \/ ViewDetail(s) \/ OpenBrowser(s) \/ Render(s) \/ CloseBrowser(s)
    \/ Collect

ResearchSpec == ResearchInit /\ [][ResearchNext]_researchVars

-----------------------------------------------------------------------------
\* law_record_to_line(): what is not a note about the detail page is labelled its text.
Labelled(d) == d.at \notin {"no link", "not allowed", "failed"}

\* Under each of the first records stands the text of its own page, also where some of
\* the pages were fetched and others came from the browser later; a page that was
\* fetched is one of the official hosts.  And a section that found something is in the
\* notes, unless the browser could not be started.
DetailsOfTheirOwn ==
    /\ notes = "sections" =>
          \A s \in Sections : answer[s] = "results" /\ research = "law" =>
             /\ Len(detail[s]) = Top(records[s])
             /\ \A i \in DOMAIN detail[s] :
                   /\ detail[s][i].at # "pending"
                   /\ Labelled(detail[s][i]) =>
                         \/ detail[s][i].page = i /\ detail[s][i].at = "official"
                         \/ records[s][i] = "taxlaw" /\ browser # "off" /\ detail[s][i].page \in {0, i}
                         \/ detail[s][i] = Note("redirected")
    /\ notes = "failed" => browser = "ready" /\ \E s \in Sections : pending[s] # <<>>
=============================================================================
