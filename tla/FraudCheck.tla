------------------------------ MODULE FraudCheck ------------------------------
(***************************************************************************)
(* The check of a suspicious message (agent/tools/fraud_check.py): the     *)
(* phrases and hosts of the message are scored by category, the sum is the *)
(* verdict, and the report adds what to do about each category.            *)
(*                                                                         *)
(*   the message, pasted              Receive                              *)
(*   scan_message, format_report      Scan                                 *)
(*   web_enrichment                   Enrich                               *)
(*                                                                         *)
(* A message is the set of the phrases in it and that of its hosts; of a   *)
(* list of phrases as many stand here as its score can tell apart, and all *)
(* that are in two lists or part of another phrase.                        *)
(***************************************************************************)
EXTENDS Integers, FiniteSetsExt

CONSTANTS Pasted  \* the messages: [phrases, hosts]

VARIABLES
    text,       \* the message
    persona,    \* classify_persona of the profile
    report,     \* what the tool answers
    fraudStep   \* "idle", "received", "scanned", "enriched"

fraudVars == <<text, persona, report, fraudStep>>

(* ---------------------------------- lists ---------------------------------- *)

HighReturn == {"no loss", "principal guaranteed", "10% a month"}
SnsLure == {"open chat", "telegram", "telegram channel"}
AdvancePayment == {"pay first", "security deposit", "immediate deposit"}
Institutions == {"police", "tax service"}
Coercion == {"investigation", "immediate deposit", "safe account"}
Kinship == {"son"}
Urgent == {"accident", "police station", "number changed"}
Transfer == {"send me", "lend me"}
Secrecy == {"do not tell"}
MoneyAsk == {"lend me", "borrow urgently"}
ContactChange == {"number changed", "cannot call"}
LoanTarget == {"low credit"}
LoanInstant == {"same-day deposit"}
CryptoKeywords == {"coin", "bitcoin", "USDT"}
CryptoDeposit == {"USDT deposit", "escrow first"}
RefundMention == {"refund"}
RefundPressure == {"until today"}
RefundLure == {"https://"}
Recruit == {"side job"}
UpfrontCost == {"security deposit", "escrow first, then start"}

Phrases == UNION {HighReturn, SnsLure, AdvancePayment, Institutions, Coercion, Kinship, Urgent,
                  Transfer, Secrecy, MoneyAsk, ContactChange, LoanTarget, LoanInstant,
                  CryptoKeywords, CryptoDeposit, RefundMention, RefundPressure, RefundLure,
                  Recruit, UpfrontCost, {"deposit", "posing as"}}

\* Phrases that are part of another.
Within(phrase) ==
    CASE phrase = "telegram channel"         -> {"telegram"}
      [] phrase = "immediate deposit"        -> {"deposit"}
      [] phrase = "same-day deposit"         -> {"deposit"}
      [] phrase = "police station"           -> {"police"}
      [] phrase = "bitcoin"                  -> {"coin"}
      [] phrase = "USDT deposit"             -> {"USDT", "deposit"}
      [] phrase = "escrow first, then start" -> {"escrow first"}
      [] OTHER                               -> {}

\* An official domain; a subdomain of it; with a port, the host is another; one with a
\* brand in it, one of these with a suspicious ending; and others.
OfficialHosts == {"naver.com"}
Imitations == {"naver.com:443", "naver-login.com", "naver.xyz"}
Shorteners == {"bit.ly"}
SuspiciousTlds == {"prize.xyz", "naver.xyz"}
IpHosts == {"1.2.3.4"}
Hosts == OfficialHosts \cup Imitations \cup Shorteners \cup SuspiciousTlds \cup IpHosts
         \cup {"m.naver.com", "example.com"}

ASSUME PastedAssumption == Pasted \subseteq [phrases : SUBSET Phrases, hosts : SUBSET Hosts]

(* ---------------------------------- scores --------------------------------- *)

\* The phrases of a list that are in the message.
Found(m, list) == list \cap (m.phrases \cup UNION {Within(p) : p \in m.phrases})
Has(m, list) == Found(m, list) # {}

Score(condition, score) == IF condition THEN score ELSE 0

\* _capped_signal()
Capped(hits, perHit, cap) == Min({Cardinality(hits) * perHit, cap})

UrlScore(m) ==
    LET others == m.hosts \ OfficialHosts
    IN  Score(others \cap IpHosts # {}, 30)
        + Score(others \cap Shorteners # {}, 15)
        + Capped(others \cap Imitations, 30, 30)
        + Score((others \cap SuspiciousTlds) \ Imitations # {}, 15)

\* If every host is official, less: the price of an own link.
Relieved(m) == m.hosts # {} /\ m.hosts \subseteq OfficialHosts

ImpersonationScore(m) ==
    Score(Has(m, Institutions), 15)
    + Score(Has(m, Institutions) /\ Has(m, Coercion), 20)
    + Score(Has(m, {"safe account"}) /\ Has(m, {"deposit"}), 15)
    + Score(Has(m, {"posing as"}), 30)

IsFamily(m) ==
    \/ Has(m, Kinship) /\ Has(m, Urgent)
    \/ Has(m, MoneyAsk) /\ Has(m, ContactChange)

FamilyScore(m) ==
    IF IsFamily(m) THEN Min({30 + Score(Has(m, Transfer), 25) + Score(Has(m, Secrecy), 20), 75})
    ELSE 0

LoanScore(m) == Min({Score(Has(m, LoanTarget), 30) + Score(Has(m, LoanInstant), 20), 50})

\* Mutated: a call for a deposit is scored instead of the keywords.
CryptoScoreOrDeposit(m) ==
    IF Has(m, CryptoKeywords) /\ Has(m, CryptoDeposit) THEN 25
    ELSE Capped(Found(m, CryptoKeywords), 15, 30)

CryptoScore(m) ==
    Capped(Found(m, CryptoKeywords), 15, 30)
    + Score(Has(m, CryptoKeywords) /\ Has(m, CryptoDeposit), 25)

RefundScore(m) ==
    Score(Has(m, RefundMention), Min({20 + Score(Has(m, RefundPressure \cup RefundLure), 25), 45}))

PartTimeScore(m) == Score(Has(m, Recruit), Min({25 + Score(Has(m, UpfrontCost), 25), 50}))

\* scan_message(): the signals, by category.
Signals(m) ==
    [url           |-> UrlScore(m),
     highReturn    |-> Capped(Found(m, HighReturn), 25, 50),
     sns           |-> Capped(Found(m, SnsLure), 10, 20),
     advance       |-> Capped(Found(m, AdvancePayment), 25, 50),
     impersonation |-> ImpersonationScore(m),
     family        |-> FamilyScore(m),
     loan          |-> LoanScore(m),
     crypto        |-> CryptoScore(m),
     refund        |-> RefundScore(m),
     partTime      |-> PartTimeScore(m)]

Relief == 10

Total(m) ==
    LET s == Signals(m)
    IN  Max({0, s.url + s.highReturn + s.sns + s.advance + s.impersonation + s.family + s.loan
                + s.crypto + s.refund + s.partTime - Score(Relieved(m), Relief)})

Verdict(score) == IF score >= 60 THEN "danger" ELSE IF score >= 30 THEN "caution" ELSE "check"

(* ---------------------------------- report --------------------------------- *)

\* _ACTION_GUIDES_BY_CATEGORY: three of the categories have none.
Guided == {"family", "loan", "crypto", "refund", "impersonation", "partTime", "url"}

Guides(m) == LET signals == Signals(m) IN {c \in Guided : signals[c] > 0}

NoReport == [verdict |-> "none"]

\* format_report(): advice for the persona only if a guide precedes it.
Report(m) ==
    [verdict |-> Verdict(Total(m)), score |-> Total(m), guides |-> Guides(m),
     advice |-> IF Guides(m) = {} THEN "none" ELSE persona,
     web |-> "pending"]

FraudInit ==
    /\ text = [phrases |-> {}, hosts |-> {}]
    /\ persona = "general"
    /\ report = NoReport
    /\ fraudStep = "idle"

Receive ==
    /\ fraudStep = "idle"
    /\ text' \in Pasted
    /\ persona' \in {"senior", "general"}
    /\ fraudStep' = "received"
    /\ UNCHANGED report

Scan ==
    /\ fraudStep = "received"
    /\ report' = Report(text)
    /\ fraudStep' = "scanned"
    /\ UNCHANGED <<text, persona>>

\* web_enrichment(): switched off, without a key, failed or found; nothing else in the
\* report depends on it.
Enrich ==
    /\ fraudStep = "scanned"
    /\ \E outcome \in {"off", "no key", "failed", "found"} : report' = [report EXCEPT !.web = outcome]
    /\ fraudStep' = "enriched"
    /\ UNCHANGED <<text, persona>>

FraudNext ==
    \/ Receive
    \/ Scan
    \/ Enrich

FraudSpec == FraudInit /\ [][FraudNext]_fraudVars

-----------------------------------------------------------------------------
Harsher == [none |-> 0, check |-> 1, caution |-> 2, danger |-> 3]

\* More signs of fraud never make a message look better: without one of its phrases or
\* hosts the score would not be higher, the verdict not harsher and no guide more; only
\* where all the hosts are official is there the relief, and then by no more than that.
MoreSignsNeverSofter ==
    fraudStep = "scanned" =>
        LET less(m) == /\ Total(m) <= report.score + Score(Relieved(text), Relief)
                       /\ ~Relieved(text) => Harsher[Verdict(Total(m))] <= Harsher[report.verdict]
                       /\ Guides(m) \subseteq report.guides
        IN  /\ \A p \in text.phrases : less([text EXCEPT !.phrases = @ \ {p}])
            /\ \A h \in text.hosts : less([text EXCEPT !.hosts = @ \ {h}])
=============================================================================
